---- MODULE Spec2Model ----
(***************************************************************************)
(* ChunkLoader (src/src/utils/chunkLoader.ts): the streaming loader that   *)
(* creates chunks around the camera, starts their asynchronous loads,      *)
(* inserts the loaded stars into the StarOctree and unloads chunks by      *)
(* distance and by memory pressure.                                        *)
(*                                                                         *)
(* update(camera) is synchronous; it is modelled as a forced sequence of   *)
(* phases (pc) in the order of the source, and nothing else runs while pc  *)
(* is not "idle" (JavaScript runs one task at a time).  A load completes   *)
(* in a later task: the idle callback, the continuation of                 *)
(* startLoadingChunk and its finally block run back to back (microtasks),  *)
(* so one completion is one action.                                        *)
(*                                                                         *)
(* Positions are integer triples.  Math.sqrt is truncated to whole units   *)
(* where it enters a priority; comparisons of a distance against a         *)
(* threshold are made on the exact squares.  Memory is counted in bytes:   *)
(* config.memoryLimit holds the limit of the source (in MB) times          *)
(* 1024 * 1024.                                                            *)
(***************************************************************************)
EXTENDS Integers, Sequences, FiniteSets, TLC

(***************************************************************************)
(* Bounds of the model.                                                    *)
(***************************************************************************)
MaxFrames == 3            \* update ticks explored by Spec
MaxFramesSteady == 121    \* update ticks explored by SpecSteady
MaxLoadFrames == 2        \* SpecSteady: an idle callback runs within this many ticks
StartTime == 2000         \* Date.now() at the first tick, relative to the epoch of the model
FrameMs == 16             \* a frame at 60fps
SlowFrameMs == 2000       \* a stalled frame
MaxLoadErrors == 1        \* idle callbacks that reject
MemoryLimitBytes == 20000 \* config.memoryLimit * 1024 * 1024 given to the constructor
NearUnloadDistance == 700 \* an unloadDistance given to the constructor
SqrtSafeAxis == 26000     \* largest axis difference whose squared distance is still computed
LoadDeadlineMs == 3000    \* a deadline for one chunk load, for the comparison of C14
MaxFramesTeardown == 2    \* update calls before the unmount
OctreeMaxDepth == 2       \* config.maxDepth of the octree on its own
MaxStarsPerNode == 1      \* config.maxStarsPerNode of the octree on its own
MaxInserts == 4           \* calls of StarOctree.insert
MaxProbeDistance == 6000  \* largest distance given to calculatePriority on its own
MaxLodLevel == 3          \* largest LOD level given to calculatePriority on its own
MaxFramesPair == 3        \* update calls of each of the two loaders
PairDistance == 1000      \* distance along z from the spawn position of the second camera position
PairStep == 8             \* distance along z between the second and the third camera position
MaxMaterialFrames == 3    \* animation frames of the material of one node
PathSegments == 4         \* config.pathSegments given to the guardrails
ShortSegment == 200       \* distance between neighbouring points of a short path
LongSegment == 300        \* distance between neighbouring points of a long path
DenseStarCount == 8000    \* stars around a point that make the density adequate
TotalStars == 200          \* TOTAL_STARS of the explored universe
MaxCalls == 2              \* calls of the star functions in one run
MaxZoom == 500            \* largest zoom of a generated cell
MaxFramesServe == 6        \* ticks with the camera at rest, for the queue to be served
MaxServeChunks == 9        \* places of the chunk table looked at
MaxRequests == 3           \* requests sent to the worker
MaxDirect == 2             \* calls answered from the cache or on the main thread
MaxMainNumber == 6         \* numbers offered for the main selection
MaxLuckyNumber == 3        \* numbers offered for the lucky stars
MaxFramesClear == 3        \* update calls of the loader that is cleared
MaxClears == 1             \* calls of clear()
ClearStep == 500           \* distance along z between the camera positions around a clear()
MaxFramesJump == 3        \* update calls of the jumping camera
JumpLength == 6600        \* length of the jump along z

(***************************************************************************)
(* Program constants.                                                      *)
(***************************************************************************)
HistoryLimit == 30
QualityCheckInterval == 2000
MemoryCheckFrames == 120
ChunkCreationThreshold == 300
ChunkCreationCooldown == 250
BaseChunkSize == 8000
BasePreloadDistance == 2000
BaseChunkCount == 3
DefaultUnloadDistance == 5000
DefaultMaxConcurrentLoads == 3
PredictionTime == 2000
IdPrecision == 100
BytesPerStar == 100
MinStarsPerChunk == 150
LodDistanceNear == 200
MaterialUpdateInterval == 1000
SearchRadius == 100
MaxEmptyDistance == 500
UniverseSeed == 42
UniverseSize == 1000000
ClusterRadius == 300
StarsPerCluster == 8
MaxAttempts == 3
MaxMain == 5
MaxCacheSize == 2000
MaxLucky == 2
DetourFactorTenths == 3
TrialSteps == 20

Qualities == {"low", "medium", "high"}

NoPosition == <<>>

Max(a, b) == IF a >= b THEN a ELSE b
Min(a, b) == IF a <= b THEN a ELSE b
Abs(a) == IF a < 0 THEN -a ELSE a

RECURSIVE ISqrtBetween(_, _, _)
ISqrtBetween(n, lo, hi) ==
  IF lo >= hi THEN lo
  ELSE LET mid == (lo + hi + 1) \div 2
       IN IF mid * mid <= n THEN ISqrtBetween(n, mid, hi)
                            ELSE ISqrtBetween(n, lo, mid - 1)

\* Math.sqrt, truncated
ISqrt(n) == ISqrtBetween(n, 0, 46340)

(***************************************************************************)
(* Geometry of the explored scene.  The camera stays near the centre of    *)
(* the level-5 octree cell [0, 31250]^3 of the engine's octree (root       *)
(* bounds -500000 .. 500000).                                              *)
(***************************************************************************)
BasePosition == <<15625, 15625, 15625>>
CameraPositions ==
  { BasePosition,
    <<15625, 15625, 15615>>,     \* 10 units away
    <<15625, 15625, 16025>> }    \* 400 units away

\* leaves of the octree that updateVisibility may report, in traversal order
NodeCandidates ==
  << [min |-> <<0, 0, 0>>, max |-> <<31250, 31250, 31250>>] >>

VARIABLES
  now,                        \* Date.now()
  quality,                    \* qualityManager.getCurrentSettings().quality, fixed during a run
  config,                     \* this.config
  chunks,                     \* this.chunks, in insertion order
  loadingTasks,               \* this.loadingTasks: chunk id -> task
  loadingQueue,               \* this.loadingQueue
  camera,                     \* this.camera (position)
  cameraHistory,              \* this.cameraHistory (positions)
  frameCount,
  lastChunkCreationPosition,
  lastChunkCreationTime,
  lastQualityCheck,
  performanceMetrics,
  octreeStars,                \* stars held by the StarOctree, per chunk whose load inserted them
  visibleNodes,               \* octree.getVisibleNodes()
  pendingLoads,               \* chunk ids whose idle callback has not run yet, in the order requested
  pc,                         \* position inside update()
  chunksCreated,              \* local of createChunksAroundCamera
  tickLog,                    \* what the current (or last) update() did, in order
  twin,                       \* a second ChunkLoader, fed the same cameras with predictiveLoading off
  probe,                      \* arguments and results of calculatePriority for two chunks
  tree,                       \* the nodes of a StarOctree, by path of child indices from the root
  inserted,                   \* the stars passed to StarOctree.insert, in order
  material,                   \* one octree node's render batch, the quality settings and the clock
  route,                      \* arguments and results of the camera path guardrails
  starField,                  \* arguments and results of the deterministic star functions
  cell,                       \* arguments and results of the two star generators of a cell,
                              \* or the state of the StarWorkerManager
  picker,                     \* selectedMain and selectedLucky of useNumberPicker
  manager,                    \* the StarWorkerManager, its worker and the messages in flight
  scene,                      \* the visible nodes of the octree and the call that set them
  clears                      \* the clear() calls and the callbacks of loads started before the last

vars == << now, quality, config, chunks, loadingTasks, loadingQueue, camera,
           cameraHistory, frameCount, lastChunkCreationPosition,
           lastChunkCreationTime, lastQualityCheck, performanceMetrics,
           octreeStars, visibleNodes, pendingLoads, pc, chunksCreated, tickLog,
           twin, probe, tree, inserted, material, route, starField, cell, picker, manager, scene, clears >>

\* the variables of the second loader, of the priority comparison and of the
\* octree on its own
aux == << twin, probe, tree, inserted, material, route, starField, cell, picker, manager, scene, clears >>

\* the variables of the subsystems outside the chunk loader and the octree
extra == << material, route, starField, cell, picker, manager, scene, clears >>

loaderVars == << now, quality, config, chunks, loadingTasks, loadingQueue, camera,
                 cameraHistory, frameCount, lastChunkCreationPosition,
                 lastChunkCreationTime, lastQualityCheck, performanceMetrics,
                 octreeStars, visibleNodes, pendingLoads, pc, chunksCreated,
                 tickLog >>

(***************************************************************************)
(* Pure helpers of ChunkLoader.                                            *)
(***************************************************************************)
Center(bounds) == [a \in 1..3 |-> (bounds.min[a] + bounds.max[a]) \div 2]

AxisDiff(p, q) == [a \in 1..3 |-> Abs(p[a] - q[a])]

MaxAxis(d) == Max(d[1], Max(d[2], d[3]))

SumSquares(d) == d[1] * d[1] + d[2] * d[2] + d[3] * d[3]

\* sqrt(dx^2 + dy^2 + dz^2), truncated; a point further than SqrtSafeAxis away
\* on one axis is reported at that axis distance (it is only ever compared
\* with thresholds far below it)
PointDistance(p, q) ==
  LET d == AxisDiff(p, q)
  IN IF MaxAxis(d) > SqrtSafeAxis THEN MaxAxis(d) ELSE ISqrt(SumSquares(d))

\* sqrt(...) < limit, exactly
PointCloserThan(p, q, limit) ==
  LET d == AxisDiff(p, q)
  IN MaxAxis(d) < limit /\ SumSquares(d) < limit * limit

\* sqrt(...) > limit, exactly
PointFurtherThan(p, q, limit) ==
  LET d == AxisDiff(p, q)
  IN MaxAxis(d) > limit \/ SumSquares(d) > limit * limit

calculateDistanceToChunk(position, bounds) == PointDistance(position, Center(bounds))

generateChunkId(bounds) ==
  [a \in 1..3 |-> (bounds.min[a] \div IdPrecision) * IdPrecision]

\* faulty variant: the base score grows with the distance
calculatePriorityFarFirst(distance, predictedDistance, lodLevel) ==
  LET baseScore == distance - 1000
      predictionBonus == Max(0, 500 - predictedDistance)
      lodBonus == lodLevel * 100
  IN baseScore + predictionBonus + lodBonus

calculatePriority(distance, predictedDistance, lodLevel) ==
  LET baseScore == 1000 - distance
      predictionBonus == Max(0, 500 - predictedDistance)
      lodBonus == lodLevel * 100
  IN baseScore + predictionBonus + lodBonus

estimateMemoryUsage(starCount) == starCount * BytesPerStar

\* getStarsInChunk(bounds).length: the sampled universe stars, topped up with
\* filler stars to minStarsPerChunk.  A chunk of the sizes explored here holds
\* fewer than minStarsPerChunk sampled stars.
StarsInChunk(bounds) == MinStarsPerChunk

\* getOptimalLOD3D(camera).level: zoom = 1000 / max(|position|, 100); level 1
\* from zoom >= 5, level 2 (zoom >= 40) is out of reach
getOptimalLOD3D(position) ==
  IF PointCloserThan(position, <<0, 0, 0>>, LodDistanceNear + 1) THEN 1 ELSE 0

QualityTenths(q) == CASE q = "high" -> 15 [] q = "medium" -> 12 [] OTHER -> 8

getAdaptiveChunkSize(q) ==
  CASE q = "high" -> (BaseChunkSize * 12) \div 10
    [] q = "low" -> (BaseChunkSize * 8) \div 10
    [] OTHER -> BaseChunkSize

adjustChunkLoadingParameters(cfg, q, metrics) ==
  LET newPreloadDistance == (BasePreloadDistance * QualityTenths(q)) \div 10
      newMaxConcurrentLoads == Max(1, (BaseChunkCount * QualityTenths(q)) \div 10)
  IN IF cfg.preloadDistance # newPreloadDistance
     THEN [cfg |-> [cfg EXCEPT !.preloadDistance = newPreloadDistance,
                               !.maxConcurrentLoads = newMaxConcurrentLoads],
           metrics |-> [metrics EXCEPT !.qualityAdjustments = @ + 1]]
     ELSE [cfg |-> cfg, metrics |-> metrics]

predictCameraPosition(history, cam) ==
  IF Len(history) < 2 THEN cam
  ELSE LET current == history[Len(history)]
           previous == history[Len(history) - 1]
           predictionFactor == PredictionTime \div 16
       IN [a \in 1..3 |-> current[a] + (current[a] - previous[a]) * predictionFactor]

PredictedPosition(cfg, history, cam) ==
  IF cfg.predictiveLoading THEN predictCameraPosition(history, cam) ELSE cam

\* faulty variant: the cooldown alone decides, the distance moved is not looked at
shouldCreateNewChunksCooldownOnly(cameraPosition, lastPosition, lastTime, t) ==
  ~(t - lastTime < ChunkCreationCooldown)

shouldCreateNewChunks(cameraPosition, lastPosition, lastTime, t) ==
  IF t - lastTime < ChunkCreationCooldown THEN FALSE
  ELSE IF lastPosition # NoPosition
          /\ PointCloserThan(cameraPosition, lastPosition, ChunkCreationThreshold)
       THEN FALSE
       ELSE TRUE

(***************************************************************************)
(* The chunk table.  A loader state s is the record of the fields that the *)
(* methods below change: chunks, tasks, pending, queue, metrics, octree,   *)
(* created, log.                                                           *)
(***************************************************************************)
ChunkIds(cs) == { cs[i].id : i \in 1..Len(cs) }

ChunkIndex(cs, id) == CHOOSE i \in 1..Len(cs) : cs[i].id = id

HasChunk(cs, id) == id \in ChunkIds(cs)

ChunkById(cs, id) == cs[ChunkIndex(cs, id)]

RemoveKey(f, k) == [x \in DOMAIN f \ {k} |-> f[x]]

Logged(s, ev, id) == [s EXCEPT !.log = Append(@, [ev |-> ev, id |-> id])]

\* Array.prototype.sort is stable: insertion after the equal keys
RECURSIVE InsertByKey(_, _)
InsertByKey(sorted, e) ==
  IF sorted = <<>> THEN <<e>>
  ELSE IF e.key < Head(sorted).key THEN <<e>> \o sorted
       ELSE <<Head(sorted)>> \o InsertByKey(Tail(sorted), e)

RECURSIVE SortByKey(_)
SortByKey(seq) ==
  IF seq = <<>> THEN <<>>
  ELSE InsertByKey(SortByKey(SubSeq(seq, 1, Len(seq) - 1)), seq[Len(seq)])

newChunk(id, bounds, priority, lodLevel, t) ==
  [id |-> id, bounds |-> bounds, loadState |-> "unloaded", priority |-> priority,
   lastAccessed |-> t, memoryUsage |-> 0, lodLevel |-> lodLevel, starCount |-> 0]

ChunkPriority(bounds, cameraPosition, predictedPosition, lodLevel) ==
  calculatePriority(calculateDistanceToChunk(cameraPosition, bounds),
                    calculateDistanceToChunk(predictedPosition, bounds),
                    lodLevel)

\* octree.insert for each of the n stars of a chunk: push onto a leaf, never a
\* check against the stars already held
octreeInsert(octree, chunkId, n) ==
  IF chunkId \in DOMAIN octree
  THEN [octree EXCEPT ![chunkId] = @ + n]
  ELSE (chunkId :> n) @@ octree

onChunkLoaded(s, chunkId, n) ==
  IF ~HasChunk(s.chunks, chunkId) THEN s
  ELSE LET i == ChunkIndex(s.chunks, chunkId)
           memoryUsage == estimateMemoryUsage(n)
       IN Logged(
            [s EXCEPT !.octree = octreeInsert(@, chunkId, n),
                      !.chunks[i].loadState = "loaded",
                      !.chunks[i].starCount = n,
                      !.chunks[i].memoryUsage = memoryUsage,
                      !.chunks[i].lastAccessed = now,
                      !.metrics.loadSuccess = @ + 1,
                      !.metrics.totalMemoryUsage = @ + memoryUsage],
            "loaded", chunkId)

\* faulty variant: a failed chunk is put back to 'unloaded' to be tried again
onChunkLoadErrorRetry(s, chunkId) ==
  IF ~HasChunk(s.chunks, chunkId) THEN s
  ELSE LET i == ChunkIndex(s.chunks, chunkId)
       IN [s EXCEPT !.chunks[i].loadState = "unloaded",
                    !.metrics.loadErrors = @ + 1]

onChunkLoadError(s, chunkId) ==
  IF ~HasChunk(s.chunks, chunkId) THEN s
  ELSE LET i == ChunkIndex(s.chunks, chunkId)
       IN [s EXCEPT !.chunks[i].loadState = "error",
                    !.metrics.loadErrors = @ + 1]

\* faulty variant: the stars are generated at once and the chunk is loaded before
\* startLoadingChunk returns
startLoadingChunkSync(s, chunkId) ==
  IF ~HasChunk(s.chunks, chunkId) THEN s
  ELSE LET i == ChunkIndex(s.chunks, chunkId)
           chunk == s.chunks[i]
       IN IF chunk.loadState # "unloaded" THEN s
          ELSE onChunkLoaded(
                 Logged([s EXCEPT !.chunks[i].loadState = "loading",
                                  !.chunks[i].lastAccessed = now],
                        "start", chunkId),
                 chunkId, StarsInChunk(chunk.bounds))

\* startLoadingChunk up to its first await
startLoadingChunk(s, chunkId) ==
  IF ~HasChunk(s.chunks, chunkId) THEN s
  ELSE LET i == ChunkIndex(s.chunks, chunkId)
           chunk == s.chunks[i]
       IN IF chunk.loadState # "unloaded" THEN s
          ELSE Logged(
                 [s EXCEPT !.chunks[i].loadState = "loading",
                           !.chunks[i].lastAccessed = now,
                           !.tasks = (chunkId :> [priority |-> chunk.priority,
                                                  startTime |-> now]) @@ @,
                           !.pending = Append(@, chunkId)],
                 "start", chunkId)

createSingleChunk(s, chunkCenter, chunkSize, cameraPosition, lodLevel, predictedPosition) ==
  LET half == chunkSize \div 2
      chunkBounds == [min |-> [a \in 1..3 |-> chunkCenter[a] - half],
                      max |-> [a \in 1..3 |-> chunkCenter[a] + half]]
      chunkId == generateChunkId(chunkBounds)
  IN IF ~HasChunk(s.chunks, chunkId)
     THEN [s |-> Logged(
                   [s EXCEPT !.chunks = Append(@,
                      newChunk(chunkId, chunkBounds,
                               ChunkPriority(chunkBounds, cameraPosition,
                                             predictedPosition, lodLevel),
                               lodLevel, now))],
                   "create", chunkId),
           created |-> TRUE, id |-> chunkId]
     ELSE [s |-> s, created |-> FALSE, id |-> chunkId]

MaxChunks(cfg) == Max(4, Min(12, cfg.maxConcurrentLoads * 2))

ForwardOffsets == << 500, 1000, 1500 >>

\* createChunksAroundCamera, the loop over forwardChunks
RECURSIVE createForwardChunks(_, _, _, _, _, _, _)
createForwardChunks(s, k, chunkSize, maxChunks, cameraPosition, lodLevel, predictedPosition) ==
  IF k > Len(ForwardOffsets) \/ s.created >= maxChunks THEN s
  ELSE LET chunkCenter == [cameraPosition EXCEPT ![3] = @ - ForwardOffsets[k]]
           r == createSingleChunk(s, chunkCenter, chunkSize, cameraPosition,
                                  lodLevel, predictedPosition)
           s1 == IF r.created
                 THEN startLoadingChunk([r.s EXCEPT !.created = @ + 1], r.id)
                 ELSE r.s
       IN createForwardChunks(s1, k + 1, chunkSize, maxChunks, cameraPosition,
                              lodLevel, predictedPosition)

\* the 27 offsets of the x, y, z loops, in loop order
GridOffset(k) == << ((k - 1) \div 9) - 1, (((k - 1) \div 3) % 3) - 1, ((k - 1) % 3) - 1 >>

\* createChunksAroundCamera, the loops over the 3x3x3 neighbourhood
RECURSIVE createGridChunks(_, _, _, _, _, _, _)
createGridChunks(s, k, chunkSize, maxChunks, cameraPosition, lodLevel, predictedPosition) ==
  IF k > 27 \/ s.created >= maxChunks THEN s
  ELSE LET chunkCenter == [a \in 1..3 |-> cameraPosition[a] + GridOffset(k)[a] * chunkSize]
           r == createSingleChunk(s, chunkCenter, chunkSize, cameraPosition,
                                  lodLevel, predictedPosition)
           s1 == IF r.created THEN [r.s EXCEPT !.created = @ + 1] ELSE r.s
       IN createGridChunks(s1, k + 1, chunkSize, maxChunks, cameraPosition,
                           lodLevel, predictedPosition)

\* processLoadingQueue: availableSlots is computed once, the bound of the loop
\* is evaluated again on every iteration
RECURSIVE processLoop(_, _, _)
processLoop(s, i, availableSlots) ==
  IF i < Min(availableSlots, Len(s.queue))
  THEN processLoop(startLoadingChunk([s EXCEPT !.queue = Tail(@)], Head(s.queue)),
                   i + 1, availableSlots)
  ELSE s

\* faulty variant: the head of the queue is read, not removed
processLoadingQueueKeep(s, cfg) ==
  LET availableSlots == cfg.maxConcurrentLoads - Cardinality(DOMAIN s.tasks)
      RECURSIVE loop(_, _)
      loop(s1, i) ==
        IF i < Min(availableSlots, Len(s1.queue))
        THEN loop(startLoadingChunk(s1, s1.queue[i + 1]), i + 1)
        ELSE s1
  IN loop(s, 0)

processLoadingQueue(s, cfg) ==
  processLoop(s, 0, cfg.maxConcurrentLoads - Cardinality(DOMAIN s.tasks))

\* faulty variant: chunks in 'error' are queued again
prioritizedQueueWithErrors(s) ==
  LET idx == { i \in 1..Len(s.chunks) :
                 /\ s.chunks[i].loadState \in {"unloaded", "error"}
                 /\ s.chunks[i].priority > 0
                 /\ s.chunks[i].id \notin DOMAIN s.tasks }
      RECURSIVE Keyed(_)
      Keyed(i) == IF i > Len(s.chunks) THEN <<>>
                  ELSE (IF i \in idx
                        THEN << [key |-> -s.chunks[i].priority, id |-> s.chunks[i].id] >>
                        ELSE <<>>) \o Keyed(i + 1)
      sorted == SortByKey(Keyed(1))
  IN [j \in 1..Len(sorted) |-> sorted[j].id]

\* updateLoadingQueue: filter, sort by descending priority, map to ids
prioritizedQueue(s) ==
  LET idx == { i \in 1..Len(s.chunks) :
                 /\ s.chunks[i].loadState = "unloaded"
                 /\ s.chunks[i].priority > 0
                 /\ s.chunks[i].id \notin DOMAIN s.tasks }
      RECURSIVE Keyed(_)
      Keyed(i) == IF i > Len(s.chunks) THEN <<>>
                  ELSE (IF i \in idx
                        THEN << [key |-> -s.chunks[i].priority, id |-> s.chunks[i].id] >>
                        ELSE <<>>) \o Keyed(i + 1)
      sorted == SortByKey(Keyed(1))
  IN [j \in 1..Len(sorted) |-> sorted[j].id]

\* faulty variant: the queue is drained as soon as it is rebuilt
updateLoadingQueueEager(s) ==
  processLoadingQueue([s EXCEPT !.queue = prioritizedQueue(s)], config)

updateLoadingQueue(s) == [s EXCEPT !.queue = prioritizedQueue(s)]

\* the chunks for visible octree nodes (updateChunkPriorities, visibleNodes.forEach)
RECURSIVE addVisibleNodeChunks(_, _, _, _, _, _)
addVisibleNodeChunks(s, nodes, k, cameraPosition, lodLevel, predictedPosition) ==
  IF k > Len(nodes) THEN s
  ELSE LET chunkId == generateChunkId(nodes[k])
           s1 == IF ~HasChunk(s.chunks, chunkId)
                 THEN Logged(
                        [s EXCEPT !.chunks = Append(@,
                           newChunk(chunkId, nodes[k],
                                    ChunkPriority(nodes[k], cameraPosition,
                                                  predictedPosition, lodLevel),
                                    lodLevel, now))],
                        "create", chunkId)
                 ELSE s
       IN addVisibleNodeChunks(s1, nodes, k + 1, cameraPosition, lodLevel,
                               predictedPosition)

unloadChunk(s, chunkId) ==
  IF ~HasChunk(s.chunks, chunkId) THEN s
  ELSE LET i == ChunkIndex(s.chunks, chunkId)
       IN IF s.chunks[i].loadState # "loaded" THEN s
          ELSE Logged(
                 [s EXCEPT !.chunks[i].loadState = "unloaded",
                           !.metrics.totalMemoryUsage = @ - s.chunks[i].memoryUsage,
                           !.chunks[i].memoryUsage = 0,
                           !.chunks[i].starCount = 0],
                 "unload", chunkId)

RECURSIVE unloadAll(_, _)
unloadAll(s, ids) ==
  IF ids = <<>> THEN s ELSE unloadAll(unloadChunk(s, Head(ids)), Tail(ids))

\* faulty variant: the unload threshold is a tenth of unloadDistance, inside
\* the range in which chunks are loaded
ShouldUnloadNear(chunk, cameraPosition, cfg) ==
  /\ chunk.loadState = "loaded"
  /\ PointFurtherThan(cameraPosition, Center(chunk.bounds), cfg.unloadDistance \div 10)

ShouldUnload(chunk, cameraPosition, cfg) ==
  /\ chunk.loadState = "loaded"
  /\ PointFurtherThan(cameraPosition, Center(chunk.bounds), cfg.unloadDistance)

unloadDistantChunks(s, cameraPosition, cfg) ==
  LET RECURSIVE ToUnload(_)
      ToUnload(i) == IF i > Len(s.chunks) THEN <<>>
                     ELSE (IF ShouldUnload(s.chunks[i], cameraPosition, cfg)
                           THEN << s.chunks[i].id >> ELSE <<>>) \o ToUnload(i + 1)
  IN unloadAll(s, ToUnload(1))

\* manageMemory, the loop over sortedChunks.  The source compares megabytes:
\* currentReduction >= targetReduction, with targetReduction = usage - 0.8 * limit;
\* here both sides are bytes times 5.  The memory of the chunk is read after
\* unloadChunk has run on it.
RECURSIVE evictLoop(_, _, _, _)
evictLoop(s, sortedIds, currentReduction5, targetReduction5) ==
  IF sortedIds = <<>> \/ currentReduction5 >= targetReduction5 THEN s
  ELSE LET s1 == unloadChunk(s, Head(sortedIds))
       IN evictLoop(s1, Tail(sortedIds),
                    currentReduction5 + 5 * ChunkById(s1.chunks, Head(sortedIds)).memoryUsage,
                    targetReduction5)

\* the loaded chunks, least recently accessed first
lruLoaded(s) ==
  LET RECURSIVE Keyed(_)
      Keyed(i) == IF i > Len(s.chunks) THEN <<>>
                  ELSE (IF s.chunks[i].loadState = "loaded"
                        THEN << [key |-> s.chunks[i].lastAccessed,
                                 id |-> s.chunks[i].id] >>
                        ELSE <<>>) \o Keyed(i + 1)
      sorted == SortByKey(Keyed(1))
  IN [j \in 1..Len(sorted) |-> sorted[j].id]

\* faulty variant: one chunk is evicted per call
manageMemoryOneChunk(s, cfg) ==
  IF s.metrics.totalMemoryUsage > cfg.memoryLimit /\ lruLoaded(s) # <<>>
  THEN unloadChunk(s, Head(lruLoaded(s)))
  ELSE s

manageMemory(s, cfg) ==
  IF s.metrics.totalMemoryUsage > cfg.memoryLimit
  THEN evictLoop(s, lruLoaded(s), 0,
                 5 * s.metrics.totalMemoryUsage - 4 * cfg.memoryLimit)
  ELSE s

(***************************************************************************)
(* StarOctree.  The tree is a function from paths to nodes: the root is at *)
(* the empty path, the k-th child of the node at path p is at Append(p, k).*)
(* node.children is the sequence of the paths of the children, empty for   *)
(* null.  The root box has a side of 2^(maxDepth+1), so that every centre  *)
(* computed by subdivide is a whole number, as it is exact in the source.  *)
(***************************************************************************)
OctreeSize == 2 ^ (OctreeMaxDepth + 1)

OctreeConfig ==
  [bounds |-> [min |-> <<0, 0, 0>>, max |-> <<OctreeSize, OctreeSize, OctreeSize>>],
   maxStarsPerNode |-> MaxStarsPerNode,
   maxDepth |-> OctreeMaxDepth]

\* positions given to insert: the centre and the corners of the root box, the
\* centre of its first child, a point on one dividing plane, interior points
\* and a point outside the root box
OctreePoints ==
  LET c == OctreeSize \div 2
  IN { <<c, c, c>>, <<0, 0, 0>>, <<OctreeSize, OctreeSize, OctreeSize>>,
       <<c \div 2, c \div 2, c \div 2>>, <<c, 1, 1>>, <<1, 1, 1>>,
       <<OctreeSize + 1, 1, 1>> }

\* mesh, lodLevel and distanceToCamera are undefined in a new node: no batch,
\* and -1 for the two numbers
createNode(bounds, level) ==
  [bounds |-> bounds, stars |-> <<>>, children |-> <<>>, level |-> level,
   starCount |-> 0, mesh |-> <<>>, lodLevel |-> -1, distanceToCamera |-> -1]

\* the bounds of the k-th entry of node.children: x is split by the lowest bit
\* of k - 1, y by the next, z by the highest
childBounds(bounds, k) ==
  LET c == Center(bounds)
      upper(a) == ((k - 1) \div (2 ^ (a - 1))) % 2 = 1
  IN [min |-> [a \in 1..3 |-> IF upper(a) THEN c[a] ELSE bounds.min[a]],
      max |-> [a \in 1..3 |-> IF upper(a) THEN bounds.max[a] ELSE c[a]]]

subdivide(t, path) ==
  IF t[path].children # <<>> \/ t[path].level >= OctreeConfig.maxDepth THEN t
  ELSE LET paths == [k \in 1..8 |-> Append(path, k)]
       IN [q \in DOMAIN t \cup { paths[k] : k \in 1..8 } |->
             IF q = path THEN [t[path] EXCEPT !.children = paths]
             ELSE IF q \in DOMAIN t THEN t[q]
             ELSE createNode(childBounds(t[path].bounds, q[Len(q)]),
                             t[path].level + 1)]

pointInBounds(point, bounds) ==
  \A a \in 1..3 : point[a] >= bounds.min[a] /\ point[a] <= bounds.max[a]

\* faulty variant: a leaf is split one star later
overCapacityLate(node) ==
  /\ Len(node.stars) > OctreeConfig.maxStarsPerNode + 1
  /\ node.level < OctreeConfig.maxDepth

\* insertRecursive, the condition of the split
overCapacity(node) ==
  /\ Len(node.stars) > OctreeConfig.maxStarsPerNode
  /\ node.level < OctreeConfig.maxDepth

RECURSIVE insertRecursive(_, _, _)

\* insertRecursive, the loop over starsToMove
RECURSIVE redistribute(_, _, _)
redistribute(t, path, starsToMove) ==
  IF starsToMove = <<>> THEN t
  ELSE redistribute(insertRecursive(t, path, Head(starsToMove)), path,
                    Tail(starsToMove))

\* the children of the node at path whose bounds hold the point, in the order
\* of node.children
childrenHolding(t, path, point) ==
  SelectSeq(t[path].children, LAMBDA q : pointInBounds(point, t[q].bounds))

\* faulty variant: the loop over the children has no break
insertRecursiveEveryChild(t, path, star) ==
  IF ~pointInBounds(star.position, t[path].bounds) THEN t
  ELSE IF t[path].children = <<>>
  THEN LET t1 == [t EXCEPT ![path].stars = Append(@, star),
                           ![path].starCount = @ + 1]
       IN IF overCapacity(t1[path])
          THEN LET t2 == subdivide(t1, path)
               IN redistribute([t2 EXCEPT ![path].stars = <<>>,
                                          ![path].starCount = 0],
                               path, t2[path].stars)
          ELSE t1
  ELSE LET RECURSIVE insertInto(_, _)
           insertInto(t1, paths) ==
             IF paths = <<>> THEN t1
             ELSE insertInto(insertRecursive(t1, Head(paths), star), Tail(paths))
       IN [insertInto(t, childrenHolding(t, path, star.position))
             EXCEPT ![path].starCount = @ + 1]

insertRecursive(t, path, star) ==
  IF ~pointInBounds(star.position, t[path].bounds) THEN t
  ELSE IF t[path].children = <<>>
  THEN LET t1 == [t EXCEPT ![path].stars = Append(@, star),
                           ![path].starCount = @ + 1]
       IN IF overCapacity(t1[path])
          THEN LET t2 == subdivide(t1, path)
               IN redistribute([t2 EXCEPT ![path].stars = <<>>,
                                          ![path].starCount = 0],
                               path, t2[path].stars)
          ELSE t1
  ELSE LET holding == childrenHolding(t, path, star.position)
           t1 == IF holding = <<>> THEN t
                 ELSE insertRecursive(t, Head(holding), star)
       IN [t1 EXCEPT ![path].starCount = @ + 1]

\* the tree after construction
NewOctree == (<<>> :> createNode(OctreeConfig.bounds, 0))

(***************************************************************************)
(* The material of the render batch (mesh) of one octree node that holds   *)
(* stars.  The quality settings come from the quality manager; the style   *)
(* is fixed.                                                               *)
(***************************************************************************)
BaseLODThresholds == << 500, 2000, 8000, 20000 >>

\* calculateLODLevel: the thresholds are multiplied by 1.5, 1.2 or 0.8
calculateLODLevel(distance, q) ==
  LET below == { i \in 1..Len(BaseLODThresholds) :
                   distance * 10 < BaseLODThresholds[i] * QualityTenths(q) }
  IN IF below = {} THEN Len(BaseLODThresholds)
     ELSE (CHOOSE i \in below : \A j \in below : i <= j) - 1

NoHash == <<>>

generateMaterialHash(q, lodLevel) == << q, lodLevel >>

\* lastMaterialUpdate is 0 when unset or forced
shouldUpdateMaterial(node, currentHash, t) ==
  \/ node.materialHash = NoHash
  \/ node.materialHash # currentHash
  \/ node.lastMaterialUpdate = 0
  \/ t - node.lastMaterialUpdate > MaterialUpdateInterval

\* updateNodeMaterial; assigned keeps the times of the last two assignments to
\* node.mesh.material
updateNodeMaterial(m) ==
  LET lodLevel == calculateLODLevel(m.node.distanceToCamera, m.quality)
      materialHash == generateMaterialHash(m.quality, lodLevel)
  IN IF ~shouldUpdateMaterial(m.node, materialHash, m.now) THEN m
     ELSE IF ~m.node.mesh THEN m
     ELSE [m EXCEPT !.node.materialHash = materialHash,
                    !.node.lastMaterialUpdate = m.now,
                    !.node.lodLevel = lodLevel,
                    !.assigned = IF Len(@) < 2 THEN Append(@, m.now)
                                 ELSE << @[2], m.now >>]

\* forceUpdateMaterials, for the one node
forceUpdateMaterials(m) ==
  IF m.node.mesh
  THEN updateNodeMaterial([m EXCEPT !.node.lastMaterialUpdate = 0])
  ELSE m

\* ChunkLoader.updateOctreeQuality; update() has set lastQualityCheck to the
\* time of its first call before, so that its test for 0 fails
updateOctreeQuality(m) ==
  IF ~m.isAutomatic THEN forceUpdateMaterials(m) ELSE m

\* traverseVisibility for the node, in the frustum and within maxDistance:
\* ensureNodeMesh, then updateNodeMaterial
traverseVisibility(m, distance, inFrustum) ==
  LET m1 == [m EXCEPT !.node.distanceToCamera = distance]
  IN IF ~inFrustum THEN m1
     ELSE updateNodeMaterial(
            [m1 EXCEPT !.node.mesh = TRUE,
                       !.node.lodLevel = calculateLODLevel(distance, m.quality)])

NewMaterial ==
  [now |-> StartTime, quality |-> "medium", isAutomatic |-> TRUE, frames |-> 0,
   node |-> [mesh |-> FALSE, materialHash |-> NoHash, lastMaterialUpdate |-> 0,
             lodLevel |-> 0, distanceToCamera |-> 0],
   assigned |-> <<>>]

(***************************************************************************)
(* CameraGuardrails.  A path is given by the number of stars that          *)
(* octree.getStarsInFrustum returns at each of its sampled points, and by  *)
(* the distance between two neighbouring points: generateCameraPath        *)
(* interpolates linearly, steps + 1 points at equal distances.             *)
(***************************************************************************)
\* calculateStarDensity(camera) < minStarDensity, with minStarDensity = 0.001
\* and searchVolume = (2 * searchRadius)^3
lowDensity(visibleStars) ==
  visibleStars * 1000 < (2 * SearchRadius) * (2 * SearchRadius) * (2 * SearchRadius)

\* validatePath, the loop over the points from point i on; i counts from 1
\* here and from 0 in the source
RECURSIVE validateLoop(_, _, _, _, _)
validateLoop(counts, segmentDistance, i, problematicSegments, currentEmptyDistance) ==
  IF i > Len(counts)
  THEN [isValid |-> ~(Len(problematicSegments) * 2 > Len(counts)),
        problematicSegments |-> problematicSegments]
  ELSE IF lowDensity(counts[i])
  THEN LET problems == Append(problematicSegments, i - 1)
           empty == IF i > 1 THEN currentEmptyDistance + segmentDistance
                    ELSE currentEmptyDistance
       IN IF empty > MaxEmptyDistance
          THEN [isValid |-> FALSE, problematicSegments |-> problems]
          ELSE validateLoop(counts, segmentDistance, i + 1, problems, empty)
  ELSE validateLoop(counts, segmentDistance, i + 1, problematicSegments, 0)

\* faulty variant: the distance through empty space is never reset
validatePathNoReset(counts, segmentDistance) ==
  LET RECURSIVE loop(_, _, _)
      loop(i, problems, empty) ==
        IF i > Len(counts)
        THEN [isValid |-> ~(Len(problems) * 2 > Len(counts)),
              problematicSegments |-> problems]
        ELSE IF lowDensity(counts[i])
        THEN LET e == IF i > 1 THEN empty + segmentDistance ELSE empty
             IN IF e > MaxEmptyDistance
                THEN [isValid |-> FALSE,
                      problematicSegments |-> Append(problems, i - 1)]
                ELSE loop(i + 1, Append(problems, i - 1), e)
        ELSE loop(i + 1, problems, empty)
  IN loop(1, <<>>, 0)

validatePath(counts, segmentDistance) ==
  validateLoop(counts, segmentDistance, 1, <<>>, 0)

NoRoute == [done |-> FALSE]

\* the interpolation of one coordinate at t = i / steps
lerp(a, b, i, steps) == a + ((b - a) * i) \div steps

\* the position of the interpolated camera; the other camera fields do not
\* reach the result of the guardrails
interpolateCamera3D(from, to, i, steps) ==
  [c \in 1..3 |-> lerp(from[c], to[c], i, steps)]

generateCameraPath(startCamera, endCamera, steps) ==
  [i \in 1..(steps + 1) |-> interpolateCamera3D(startCamera, endCamera, i - 1, steps)]

\* octree.getStarsInFrustum(tempCamera).length of calculateStarDensity: the
\* scene is a set of boxes without stars, dense everywhere else
visibleStars(world, position) ==
  IF \E box \in world :
       \A c \in 1..3 : box.min[c] <= position[c] /\ position[c] <= box.max[c]
  THEN 0 ELSE DenseStarCount

calculateDistance(camera1, camera2) == ISqrt(SumSquares(AxisDiff(camera1, camera2)))

\* validatePath(startCamera, endCamera): the path is sampled, each point gets
\* its star count, and the loop of validatePath runs over them (the points of
\* an interpolated path are equally spaced)
validatePathBetween(world, startCamera, endCamera) ==
  LET path == generateCameraPath(startCamera, endCamera, PathSegments)
  IN validatePath([i \in 1..Len(path) |-> visibleStars(world, path[i])],
                  calculateDistance(path[1], path[2]))

\* the deviation added to the midpoint in trial attempt
waypointDeviation(startCamera, endCamera, attempt) ==
  LET direction == [c \in 1..3 |-> endCamera[c] - startCamera[c]]
      \* twice the vector "perpendicular" of the source, to stay in integers
      perpendicular2 == << -2 * direction[2], 2 * direction[1], direction[3] >>
      magnitude == ISqrt(SumSquares(direction))
      deviation == (magnitude * DetourFactorTenths * (attempt + 1)) \div 10
      perpMagnitude2 == ISqrt(SumSquares(perpendicular2))
      deviationDirection == IF attempt % 2 = 0 THEN 1 ELSE -1
      Quotient(n, d) == IF n < 0 THEN -((-n) \div d) ELSE n \div d
  IN IF perpMagnitude2 > 0
     THEN [c \in 1..3 |->
             Quotient(perpendicular2[c] * deviation * deviationDirection,
                      perpMagnitude2)]
     ELSE << 0, 0, 0 >>

generateWaypoints(startCamera, endCamera, attempt) ==
  LET midpoint == interpolateCamera3D(startCamera, endCamera, 1, 2)
      deviation == waypointDeviation(startCamera, endCamera, attempt)
  IN << startCamera,
        [c \in 1..3 |-> midpoint[c] + deviation[c]],
        endCamera >>

\* findAlternativePath, the loop over the segments of one trial from segment
\* i on; it yields validPath and fullPath
RECURSIVE trialSegments(_, _, _, _)
trialSegments(world, waypoints, i, fullPath) ==
  IF i > Len(waypoints) - 1 THEN [validPath |-> TRUE, fullPath |-> fullPath]
  ELSE IF ~validatePathBetween(world, waypoints[i], waypoints[i + 1]).isValid
  THEN [validPath |-> FALSE, fullPath |-> fullPath]
  ELSE LET segmentPath == generateCameraPath(waypoints[i], waypoints[i + 1], TrialSteps)
       IN trialSegments(world, waypoints, i + 1,
                        IF i = 1 THEN fullPath \o segmentPath
                        ELSE fullPath \o Tail(segmentPath))

\* findAlternativePath, the loop over the trials from trial attempt on
RECURSIVE alternativeFrom(_, _, _, _, _)
alternativeFrom(world, startCamera, endCamera, maxAttempts, attempt) ==
  IF attempt >= maxAttempts THEN [found |-> FALSE, path |-> <<>>]
  ELSE LET trial == trialSegments(world,
                                  generateWaypoints(startCamera, endCamera, attempt),
                                  1, <<>>)
       IN IF trial.validPath THEN [found |-> TRUE, path |-> trial.fullPath]
          ELSE alternativeFrom(world, startCamera, endCamera, maxAttempts, attempt + 1)

\* faulty variant: the trials are tried from the last one down
findAlternativePathLastFirst(world, startCamera, endCamera, maxAttempts) ==
  LET valid == { k \in 0..(maxAttempts - 1) :
                   trialSegments(world, generateWaypoints(startCamera, endCamera, k),
                                 1, <<>>).validPath }
  IN IF valid = {} THEN [found |-> FALSE, path |-> <<>>]
     ELSE LET k == CHOOSE m \in valid : \A n \in valid : n <= m
          IN [found |-> TRUE,
              path |-> trialSegments(world,
                                     generateWaypoints(startCamera, endCamera, k),
                                     1, <<>>).fullPath]

findAlternativePath(world, startCamera, endCamera, maxAttempts) ==
  alternativeFrom(world, startCamera, endCamera, maxAttempts, 0)

adjustPath(world, startCamera, endCamera, rerouting) ==
  LET adjustedPath == findAlternativePath(world, startCamera, endCamera,
                                          rerouting.maxAttempts)
  IN IF validatePathBetween(world, startCamera, endCamera).isValid
     THEN generateCameraPath(startCamera, endCamera, PathSegments)
     ELSE IF rerouting.enabled /\ adjustedPath.found
     THEN adjustedPath.path
     ELSE generateCameraPath(startCamera, endCamera, PathSegments)

(***************************************************************************)
(* 32-bit words of the seeded generators, as pairs << high half, low half >>*)
(* of 16 bits each.                                                        *)
(***************************************************************************)
Half == 2 ^ 16

\* ToInt32/ToUint32 of an integer
ToWord(n) == << (n \div Half) % Half, n % Half >>

\* a ^ b on 4 bits
XorNibble ==
  [a \in 0..15 |-> [b \in 0..15 |->
     ((a + b) % 2)
       + 2 * (((a \div 2) + (b \div 2)) % 2)
       + 4 * (((a \div 4) + (b \div 4)) % 2)
       + 8 * (((a \div 8) + (b \div 8)) % 2)]]

Xor16(a, b) ==
  XorNibble[a % 16][b % 16]
    + 16 * XorNibble[(a \div 16) % 16][(b \div 16) % 16]
    + 256 * XorNibble[(a \div 256) % 16][(b \div 256) % 16]
    + 4096 * XorNibble[a \div 4096][b \div 4096]

\* u ^ v
Xor32(u, v) == << Xor16(u[1], v[1]), Xor16(u[2], v[2]) >>

\* u >>> k, for 0 < k < 16
Shr32(u, k) ==
  << u[1] \div (2 ^ k),
     u[2] \div (2 ^ k) + (u[1] % (2 ^ k)) * (2 ^ (16 - k)) >>

\* u | 1 and u | 61
Or1(u) == << u[1], u[2] + (1 - (u[2] % 2)) >>

Or61(u) ==
  << u[1], (u[2] \div 64) * 64 + (IF (u[2] \div 2) % 2 = 1 THEN 63 ELSE 61) >>

\* (u + v) modulo 2^32
Add32(u, v) ==
  << (u[1] + v[1] + (u[2] + v[2]) \div Half) % Half, (u[2] + v[2]) % Half >>

\* Math.imul(u, v): the product modulo 2^32, from the bytes of u and v
Imul(u, v) ==
  LET a == << u[2] % 256, u[2] \div 256, u[1] % 256, u[1] \div 256 >>
      b == << v[2] % 256, v[2] \div 256, v[1] % 256, v[1] \div 256 >>
      c0 == a[1] * b[1]
      c1 == a[1] * b[2] + a[2] * b[1]
      c2 == a[1] * b[3] + a[2] * b[2] + a[3] * b[1]
      c3 == a[1] * b[4] + a[2] * b[3] + a[3] * b[2] + a[4] * b[1]
      low == c0 + c1 * 256
  IN << (low \div Half + c2 + (c3 % 256) * 256) % Half, low % Half >>

\* floor(word / 2^32 * span), for 0 <= span < 2^22
Scale(word, span) ==
  LET r0 == (word[2] % 256) * span
      r1 == (word[2] \div 256) * span + r0 \div 256
      r2 == (word[1] % 256) * span + r1 \div 256
      r3 == (word[1] \div 256) * span + r2 \div 256
  IN r3 \div 256

\* 0x6d2b79f5
Increment == << 27947, 31221 >>

\* SeededRandom.next of Mulberry32: the state after the call and the drawn
\* word, which the source divides by 2^32
next(state) ==
  LET s1 == Add32(state, Increment)
      t1 == Imul(Xor32(s1, Shr32(s1, 15)), Or1(s1))
      t2 == Xor32(t1, Add32(t1, Imul(Xor32(t1, Shr32(t1, 7)), Or61(t1))))
  IN [state |-> s1, word |-> Xor32(t2, Shr32(t2, 14))]

(***************************************************************************)
(* The deterministic universe.  Coordinates are the integer parts of the   *)
(* source's floating-point coordinates.                                    *)
(***************************************************************************)
\* new SeededRandom(seed): this.state
SeededRandomShared(seed) == ToWord(seed + Len(starField.calls))

SeededRandom(seed) == ToWord(seed)

\* min + next() * (max - min), from the drawn word
range(word, min, max) ==
  IF max >= min THEN min + Scale(word, max - min)
  ELSE min - Scale(word, min - max)

\* faulty variant: index 0 is taken for a star
getStarPositionFromZero(starIndex, seed) ==
  IF starIndex < 0 \/ starIndex > TotalStars
  THEN [threw |-> TRUE, position |-> <<>>]
  ELSE LET x == next(SeededRandom(seed + starIndex))
           y == next(x.state)
           z == next(y.state)
           lo == -(UniverseSize \div 2)
           hi == lo + UniverseSize
       IN [threw |-> FALSE,
           position |-> << range(x.word, lo, hi), range(y.word, lo, hi),
                           range(z.word, lo, hi) >>]

getStarPosition(starIndex, seed) ==
  IF starIndex < 1 \/ starIndex > TotalStars
  THEN [threw |-> TRUE, position |-> <<>>]
  ELSE LET x == next(SeededRandom(seed + starIndex))
           y == next(x.state)
           z == next(y.state)
           lo == -(UniverseSize \div 2)
           hi == lo + UniverseSize
       IN [threw |-> FALSE,
           position |-> << range(x.word, lo, hi), range(y.word, lo, hi),
                           range(z.word, lo, hi) >>]

\* the test of getStarsInChunk on a sampled star
inChunkBounds(position, chunkBounds) ==
  \A c \in 1..3 : position[c] >= chunkBounds.min[c] /\ position[c] <= chunkBounds.max[c]

\* floor(chunkVolume / universeVolume * TOTAL_STARS), with the volume counted
\* in millionths of the universe
estimatedStarsInChunk(chunkBounds) ==
  LET side(c) == ((chunkBounds.max[c] - chunkBounds.min[c]) * 1000) \div UniverseSize
  IN (((side(1) * side(2) * side(3)) \div 1000) * TotalStars) \div 1000000

sampleStep(chunkBounds) ==
  LET sampleSize == Min(50000, Max(2000, estimatedStarsInChunk(chunkBounds) * 20))
  IN Max(1, TotalStars \div sampleSize)

\* the sampling loop: the stars 1, 1 + step, ... up to TOTAL_STARS, those
\* within the bounds kept in this order
sampleStars(chunkBounds, seed, step) ==
  LET sampled == [k \in 1..((TotalStars - 1) \div step + 1) |->
                    [position |-> getStarPosition(1 + (k - 1) * step, seed).position,
                     starIndex |-> 1 + (k - 1) * step]]
      InBounds(star) == inChunkBounds(star.position, chunkBounds)
  IN SelectSeq(sampled, InBounds)

\* Math.cos and Math.sin in thousandths, of an angle in sixteenths of a turn
Cos1000 ==
  << 1000, 924, 707, 383, 0, -383, -707, -924,
     -1000, -924, -707, -383, 0, 383, 707, 924 >>

cos(turn16) == Cos1000[turn16 + 1]

sin(turn16) == Cos1000[((turn16 + 12) % 16) + 1]

\* the integer part of n / d
Truncate(n, d) == IF n < 0 THEN -((-n) \div d) ELSE n \div d

\* faulty variant: the position is left where it is
clampNever(position, min, max) == position

\* Vector3.clamp
clamp(position, min, max) ==
  [c \in 1..3 |-> Max(min[c], Min(max[c], position[c]))]

\* the k-th number drawn from a generator created with state rng: every call
\* of next adds 0x6d2b79f5 to the state before it mixes it
draw(rng, k) == next(Add32(rng, Imul(ToWord(k - 1), Increment))).word

\* the draws of bgRng that one cluster with all its stars takes: three for
\* the centre and four for each star
DrawsPerCluster == 3 + 4 * StarsPerCluster

\* the centre of cluster number cluster
clusterCenter(chunkBounds, rng, cluster) ==
  [c \in 1..3 |->
     range(draw(rng, cluster * DrawsPerCluster + c),
           chunkBounds.min[c] + ClusterRadius, chunkBounds.max[c] - ClusterRadius)]

\* star i of cluster number cluster, as the two loops of the density
\* guarantee produce it
fillerStar(chunkBounds, rng, cluster, i) ==
  LET first == cluster * DrawsPerCluster + 3 + 4 * i
      angle1 == Scale(draw(rng, first + 1), 16)
      angle2 == Scale(draw(rng, first + 2), 16)
      falloff == Scale(draw(rng, first + 4), 1000)
      distance == (range(draw(rng, first + 3), 10, ClusterRadius) * falloff * falloff)
                    \div 1000000
      center == clusterCenter(chunkBounds, rng, cluster)
      bgPosition ==
        << center[1] + Truncate(cos(angle1) * sin(angle2) * distance, 1000000),
           center[2] + Truncate(sin(angle1) * sin(angle2) * distance, 1000000),
           center[3] + Truncate(cos(angle2) * distance, 1000) >>
  IN [position |-> clamp(bgPosition, chunkBounds.min, chunkBounds.max),
      starIndex |-> -(cluster * StarsPerCluster + i + 1)]

\* the stars of clusterCount clusters that hold starsToAdd stars between them
fillerClusters(chunkBounds, starsToAdd, clusterCount, rng) ==
  [j \in 1..Min(starsToAdd, clusterCount * StarsPerCluster) |->
     fillerStar(chunkBounds, rng, (j - 1) \div StarsPerCluster,
                (j - 1) % StarsPerCluster)]

\* the state of bgRng: seed + chunkSeed, modulo 2^32
chunkRandom(chunkBounds, seed) ==
  LET chunkCenter == [c \in 1..3 |-> (chunkBounds.min[c] + chunkBounds.max[c]) \div 2]
  IN Add32(SeededRandom(seed),
           Add32(ToWord(chunkCenter[1]),
                 Add32(Imul(ToWord(chunkCenter[2]), ToWord(1000)),
                       Imul(ToWord(chunkCenter[3]), ToWord(1000000)))))

\* faulty variant: whole clusters only
fillStarsWholeClusters(chunkBounds, seed, starsInChunk) ==
  IF Len(starsInChunk) < MinStarsPerChunk
  THEN LET starsToAdd == MinStarsPerChunk - Len(starsInChunk)
           clusterCount == (starsToAdd + StarsPerCluster - 1) \div StarsPerCluster
       IN starsInChunk
            \o fillerClusters(chunkBounds, clusterCount * StarsPerCluster, clusterCount,
                              chunkRandom(chunkBounds, seed))
  ELSE starsInChunk

\* the density guarantee of getStarsInChunk
fillStars(chunkBounds, seed, starsInChunk) ==
  IF Len(starsInChunk) < MinStarsPerChunk
  THEN LET starsToAdd == MinStarsPerChunk - Len(starsInChunk)
           clusterCount == (starsToAdd + StarsPerCluster - 1) \div StarsPerCluster
       IN starsInChunk
            \o fillerClusters(chunkBounds, starsToAdd, clusterCount,
                              chunkRandom(chunkBounds, seed))
  ELSE starsInChunk

getStarsInChunk(chunkBounds, seed) ==
  fillStars(chunkBounds, seed,
            sampleStars(chunkBounds, seed, sampleStep(chunkBounds)))

\* the Star3D record that loadChunkData makes of star k of the chunk;
\* random[k] is the k-th result of Math.random() during the call, in
\* thousandths, and four are taken for each star: two for the colour, one for
\* the size and one for the intensity
toStar3D(star, k, random) ==
  [id |-> << "star", star.starIndex >>,
   position |-> star.position,
   color |-> [h |-> 200 + (random[4 * k - 3] * 80) \div 1000,
              s |-> 80,
              l |-> 70 + (random[4 * k - 2] * 30) \div 1000],
   size |-> 2000 + random[4 * k - 1] * 4,
   intensity |-> 600 + (random[4 * k] * 400) \div 1000]

mapStars(deterministicStars, random) ==
  [k \in DOMAIN deterministicStars |-> toStar3D(deterministicStars[k], k, random)]

loadChunkData(bounds, random) == mapStars(getStarsInChunk(bounds, UniverseSeed), random)

NoStarField == [calls |-> <<>>]

(***************************************************************************)
(* Star generation for the cells of the 2-D field: the worker and the      *)
(* fallback on the main thread.  Lengths, sizes and alpha values are in    *)
(* thousandths, zoom is a whole number.                                    *)
(***************************************************************************)
\* starWorker: SeededRandom.next, the seed as a word
workerNext(seed) ==
  LET s1 == Add32(seed, Increment)
      t1 == Imul(Xor32(s1, Shr32(s1, 15)), Or1(s1))
      t2 == Xor32(Add32(t1, Imul(Xor32(t1, Shr32(t1, 7)), Or61(t1))), t1)
  IN [seed |-> s1, word |-> Xor32(t2, Shr32(t2, 14))]

\* the k-th number of a generator created with seed: every call of next adds
\* 0x6d2b79f5 to the seed before it mixes it
workerDraw(seed, k) ==
  workerNext(Add32(ToWord(seed), Imul(ToWord(k - 1), Increment))).word

\* starWorker: generateDynamicLOD; starsPerCell in halves
workerDynamicLOD(zoom) ==
  IF zoom <= 0
  THEN [level |-> 0, zoomThreshold |-> 0, cellSize |-> 2000000,
        starsPerCell |-> 200, name |-> << "distant" >>]
  ELSE IF zoom <= 5
  THEN [level |-> 1, zoomThreshold |-> 5, cellSize |-> 500000,
        starsPerCell |-> 300, name |-> << "mid" >>]
  ELSE IF zoom <= 40
  THEN [level |-> 2, zoomThreshold |-> 40, cellSize |-> 100000,
        starsPerCell |-> 400, name |-> << "near" >>]
  ELSE [level |-> 3 + zoom \div 100, zoomThreshold |-> zoom,
        cellSize |-> Max(10000, 10000000 \div zoom),
        starsPerCell |-> Min(800, 400 + zoom),
        name |-> << "ultra", 3 + zoom \div 100 >>]

\* starWorker: generateStarsForCell; the loop runs while i < starsPerCell
generateStarsForCell(cellX, cellY, lod, seed) ==
  [i \in 1..((lod.starsPerCell + 1) \div 2) |->
     [x |-> cellX * lod.cellSize + Scale(workerDraw(seed, 5 * i - 4), lod.cellSize),
      y |-> cellY * lod.cellSize + Scale(workerDraw(seed, 5 * i - 3), lod.cellSize),
      size |-> 300 + Scale(workerDraw(seed, 5 * i - 2), 500),
      alpha |-> 500 + Scale(workerDraw(seed, 5 * i - 1), 400),
      color |-> << 255, 255, 255, 500 + Scale(workerDraw(seed, 5 * i), 400) >>]]

\* starWorker: the handler of a GENERATE_STARS message, the response posted
workerOnMessage(data) ==
  LET lod == workerDynamicLOD(data.zoom)
  IN [type |-> "STARS_GENERATED",
      stars |-> generateStarsForCell(data.cellX, data.cellY, lod, data.seed),
      cellKey |-> << lod.level, data.cellX, data.cellY >>,
      lod |-> lod]

\* StarWorkerManager: createSeededRandom(seed).next
createSeededRandomNext(seed) ==
  LET s1 == Add32(seed, Increment)
      t1 == Imul(Xor32(s1, Shr32(s1, 15)), Or1(s1))
      t2 == Xor32(Add32(t1, Imul(Xor32(t1, Shr32(t1, 7)), Or61(t1))), t1)
  IN [seed |-> s1, word |-> Xor32(t2, Shr32(t2, 14))]

fallbackDraw(seed, k) ==
  createSeededRandomNext(Add32(ToWord(seed), Imul(ToWord(k - 1), Increment))).word

\* StarWorkerManager: generateDynamicLOD; starsPerCell in halves
generateDynamicLOD(zoom) ==
  IF zoom <= 0
  THEN [level |-> 0, zoomThreshold |-> 0, cellSize |-> 2000000,
        starsPerCell |-> 200, name |-> << "distant" >>]
  ELSE IF zoom <= 5
  THEN [level |-> 1, zoomThreshold |-> 5, cellSize |-> 500000,
        starsPerCell |-> 300, name |-> << "mid" >>]
  ELSE IF zoom <= 40
  THEN [level |-> 2, zoomThreshold |-> 40, cellSize |-> 100000,
        starsPerCell |-> 400, name |-> << "near" >>]
  ELSE [level |-> 3 + zoom \div 100, zoomThreshold |-> zoom,
        cellSize |-> Max(10000, 10000000 \div zoom),
        starsPerCell |-> Min(800, 400 + zoom),
        name |-> << "ultra", 3 + zoom \div 100 >>]

\* faulty variant: alpha and the alpha of the colour share one draw
generateStarsFallbackSharedAlpha(cellX, cellY, zoom, seed) ==
  LET cellSize == generateDynamicLOD(zoom).cellSize
  IN [i \in 1..((generateDynamicLOD(zoom).starsPerCell + 1) \div 2) |->
        [x |-> cellX * cellSize + Scale(fallbackDraw(seed, 4 * i - 3), cellSize),
         y |-> cellY * cellSize + Scale(fallbackDraw(seed, 4 * i - 2), cellSize),
         size |-> 300 + Scale(fallbackDraw(seed, 4 * i - 1), 500),
         alpha |-> 500 + Scale(fallbackDraw(seed, 4 * i), 400),
         color |-> << 255, 255, 255, 500 + Scale(fallbackDraw(seed, 4 * i), 400) >>]]

generateStarsFallback(cellX, cellY, zoom, seed) ==
  LET cellSize == generateDynamicLOD(zoom).cellSize
  IN [i \in 1..((generateDynamicLOD(zoom).starsPerCell + 1) \div 2) |->
        [x |-> cellX * cellSize + Scale(fallbackDraw(seed, 5 * i - 4), cellSize),
         y |-> cellY * cellSize + Scale(fallbackDraw(seed, 5 * i - 3), cellSize),
         size |-> 300 + Scale(fallbackDraw(seed, 5 * i - 2), 500),
         alpha |-> 500 + Scale(fallbackDraw(seed, 5 * i - 1), 400),
         color |-> << 255, 255, 255, 500 + Scale(fallbackDraw(seed, 5 * i), 400) >>]]

\* StarWorkerManager: generateSeed
generateSeed(cellX, cellY, level) == (cellX * 1000 + cellY) * 10000 + level

NoCell == [requested |-> FALSE]

CellKeys == { "0-0,0", "0-1,0" }

(***************************************************************************)
(* useNumberPicker: the two selections.                                    *)
(***************************************************************************)
\* [...prev, number].sort((a, b) => a - b)
RECURSIVE sortedInsert(_, _)
sortedInsert(sorted, number) ==
  IF sorted = <<>> THEN << number >>
  ELSE IF number < Head(sorted) THEN << number >> \o sorted
       ELSE << Head(sorted) >> \o sortedInsert(Tail(sorted), number)

\* faulty variant of the updater: the limit is tested after the number is added
toggleNumberLate(prev, number, max) ==
  LET Other(n) == n # number
  IN IF \E i \in 1..Len(prev) : prev[i] = number THEN SelectSeq(prev, Other)
     ELSE IF Len(prev) <= max THEN sortedInsert(prev, number)
     ELSE prev

\* the updater of toggleMainNumber and of toggleLuckyStar
toggleNumber(prev, number, max) ==
  LET Other(n) == n # number
  IN IF \E i \in 1..Len(prev) : prev[i] = number THEN SelectSeq(prev, Other)
     ELSE IF Len(prev) < max THEN sortedInsert(prev, number)
     ELSE prev

NoPicker == [selectedMain |-> <<>>, selectedLucky |-> <<>>, last |-> << >>]

(***************************************************************************)
(* StarWorkerManager.  Requests are numbered by requestCounter; the stars  *)
(* of a cell are stood for by its cellKey.  settled[id] lists the calls of *)
(* resolve and reject of request id with the cause of each, cacheWrites    *)
(* the writes to starCache with the request whose response wrote (0 for    *)
(* the main thread), ignored the responses that were dropped.              *)
(***************************************************************************)
NewManager ==
  [worker |-> TRUE, fallbackMode |-> FALSE, requestCounter |-> 0,
   pendingRequests |-> {}, timers |-> {}, starCache |-> <<>>,
   toWorker |-> {}, fromWorker |-> {},
   settled |-> [id \in 1..MaxRequests |-> <<>>],
   cacheWrites |-> {}, ignored |-> {}, direct |-> 0]

manageCacheSize(starCache) ==
  IF Len(starCache) > MaxCacheSize
  THEN SubSeq(starCache, Len(starCache) - MaxCacheSize + 1, Len(starCache))
  ELSE starCache

\* starCache.set(cellKey, stars); manageCacheSize()
cacheSet(starCache, cellKey) ==
  manageCacheSize(IF \E i \in 1..Len(starCache) : starCache[i] = cellKey
                  THEN starCache
                  ELSE Append(starCache, cellKey))

settle(m, requestId, how, by) ==
  [m EXCEPT !.settled[requestId] = Append(@, [how |-> how, by |-> by])]

\* faulty variant of the handler: the response is not matched with a pending request
managerOnMessageUnmatched(m, data) ==
  LET taken == [m EXCEPT !.fromWorker = @ \ { data }]
  IN settle([taken EXCEPT !.pendingRequests = @ \ { data.requestId },
                          !.starCache = cacheSet(@, data.cellKey),
                          !.cacheWrites = @ \cup { [cellKey |-> data.cellKey,
                                                    by |-> data.requestId] }],
            data.requestId, "resolve", data.requestId)

\* worker.onmessage of the manager for a STARS_GENERATED response
managerOnMessage(m, data) ==
  LET taken == [m EXCEPT !.fromWorker = @ \ { data }]
  IN IF data.requestId \in m.pendingRequests
     THEN settle([taken EXCEPT !.pendingRequests = @ \ { data.requestId },
                               !.starCache = cacheSet(@, data.cellKey),
                               !.cacheWrites = @ \cup { [cellKey |-> data.cellKey,
                                                         by |-> data.requestId] }],
                 data.requestId, "resolve", data.requestId)
     ELSE [taken EXCEPT !.ignored = @ \cup { data.requestId }]

\* the callback of setTimeout(..., 5000) of a request
requestTimeout(m, requestId) ==
  LET fired == [m EXCEPT !.timers = @ \ { requestId }]
  IN IF requestId \in m.pendingRequests
     THEN settle([fired EXCEPT !.pendingRequests = @ \ { requestId }],
                 requestId, "timeout", 0)
     ELSE fired

cleanup(m) ==
  [m EXCEPT !.settled = [id \in 1..MaxRequests |->
                           IF id \in m.pendingRequests
                           THEN Append(m.settled[id], [how |-> "cleanup", by |-> 0])
                           ELSE m.settled[id]],
            !.pendingRequests = {},
            !.worker = FALSE]

managerOnError(m) == cleanup([m EXCEPT !.fallbackMode = TRUE])

(***************************************************************************)
(* Visibility of the StarOctree.  node.mesh is the list of the ids of the  *)
(* stars that were put into the geometry of the render batch, empty while  *)
(* the node has none.  A camera is a position and the region it sees: the  *)
(* frustum is stood for by the box between the camera and the point it     *)
(* looks at.  The material of the batch is left out here.                  *)
(***************************************************************************)
ensureNodeMesh(node) ==
  IF node.mesh # <<>> \/ node.stars = <<>> THEN node
  ELSE [node EXCEPT !.mesh = [i \in 1..Len(node.stars) |-> node.stars[i].id]]

calculateNodeDistance(node, cameraPosition) ==
  calculateDistance(Center(node.bounds), cameraPosition)

\* frustum.intersectsBox(box)
intersectsBox(view, bounds) ==
  \A a \in 1..3 : view.min[a] <= bounds.max[a] /\ bounds.min[a] <= view.max[a]

maxNodeDistance(q) ==
  CASE q = "high" -> 500000 [] q = "medium" -> 300000 [] OTHER -> 150000

\* traverseVisibility, what it passes before it goes on to the children:
\* the frustum test and the largest distance of the quality
descends(node, cam, q) ==
  /\ intersectsBox(cam.view, node.bounds)
  /\ ~(calculateNodeDistance(node, cam.position) > maxNodeDistance(q))

\* traverseVisibility, what it writes into the node it is called on
visitNode(node, cam, q) ==
  LET distance == calculateNodeDistance(node, cam.position)
      n1 == [node EXCEPT !.distanceToCamera = distance]
  IN IF ~intersectsBox(cam.view, node.bounds) THEN n1
     ELSE LET n2 == [n1 EXCEPT !.lodLevel = calculateLODLevel(distance, q)]
          IN IF distance > maxNodeDistance(q) THEN n2
             ELSE IF n2.stars # <<>> THEN ensureNodeMesh(n2) ELSE n2

\* traverseVisibility, the nodes it is called on from the node at path down
RECURSIVE traverseVisibilityTree(_, _, _, _)
traverseVisibilityTree(t, path, cam, q) ==
  { path } \cup
    IF descends(t[path], cam, q)
    THEN UNION { traverseVisibilityTree(t, t[path].children[k], cam, q) :
                   k \in DOMAIN t[path].children }
    ELSE {}

\* updateVisibility: visibleNodes.clear(), then the traversal from the root;
\* the nodes with stars that pass both tests are added to visibleNodes
updateVisibilityTree(t, cam, q) ==
  LET called == traverseVisibilityTree(t, <<>>, cam, q)
  IN [t |-> [p \in DOMAIN t |-> IF p \in called THEN visitNode(t[p], cam, q) ELSE t[p]],
      visible |-> { p \in called : descends(t[p], cam, q) /\ t[p].stars # <<>> }]

RECURSIVE starsOf(_, _)
starsOf(t, nodes) ==
  IF nodes = {} THEN 0
  ELSE LET n == CHOOSE x \in nodes : TRUE
       IN Len(t[n].stars) + starsOf(t, nodes \ { n })

\* getStarsInFrustum: updateVisibility, then the stars of the visible nodes
getStarsInFrustum(t, cam, q) ==
  LET st == updateVisibilityTree(t, cam, q)
  IN [t |-> st.t, visible |-> st.visible, length |-> starsOf(st.t, st.visible)]

ViewBox(position, target) ==
  [min |-> [a \in 1..3 |-> Min(position[a], target[a])],
   max |-> [a \in 1..3 |-> Max(position[a], target[a])]]

\* calculateStarDensity: the temporary camera at the position, lookAt(0, 0, 0)
tempCamera(position) ==
  [position |-> position, view |-> ViewBox(position, << 0, 0, 0 >>)]

\* validatePath on the octree, the loop from point i on: st is the tree and
\* visibleNodes as the queries leave them
RECURSIVE validatePathOnTree(_, _, _, _, _, _)
validatePathOnTree(st, path, i, problems, currentEmptyDistance, q) ==
  IF i > Len(path)
  THEN [t |-> st.t, visible |-> st.visible, isValid |-> ~(problems * 2 > Len(path))]
  ELSE LET seen == getStarsInFrustum(st.t, tempCamera(path[i]), q)
           st1 == [t |-> seen.t, visible |-> seen.visible]
           empty == IF i > 1
                    THEN currentEmptyDistance + calculateDistance(path[i - 1], path[i])
                    ELSE currentEmptyDistance
       IN IF lowDensity(seen.length)
          THEN IF empty > MaxEmptyDistance
               THEN [t |-> st1.t, visible |-> st1.visible, isValid |-> FALSE]
               ELSE validatePathOnTree(st1, path, i + 1, problems + 1, empty, q)
          ELSE validatePathOnTree(st1, path, i + 1, problems, 0, q)

NoScene == [visibleNodes |-> {}, last |-> "none", before |-> <<>>]

NoClears == [count |-> 0, stale |-> 0]

getStarsForCell(m, cellKey) ==
  IF \E i \in 1..Len(m.starCache) : m.starCache[i] = cellKey
  THEN [m EXCEPT !.direct = @ + 1]
  ELSE IF m.fallbackMode \/ ~m.worker
  THEN [m EXCEPT !.starCache = cacheSet(@, cellKey),
                 !.cacheWrites = @ \cup { [cellKey |-> cellKey, by |-> 0] },
                 !.direct = @ + 1]
  ELSE LET requestId == m.requestCounter + 1
       IN [m EXCEPT !.requestCounter = requestId,
                    !.pendingRequests = @ \cup { requestId },
                    !.timers = @ \cup { requestId },
                    !.toWorker = @ \cup { [requestId |-> requestId, cellKey |-> cellKey] }]

(***************************************************************************)
(* State and actions.                                                      *)
(***************************************************************************)
DefaultConfig ==
  [preloadDistance |-> BasePreloadDistance,
   unloadDistance |-> DefaultUnloadDistance,
   maxConcurrentLoads |-> DefaultMaxConcurrentLoads,
   predictiveLoading |-> TRUE,
   memoryLimit |-> MemoryLimitBytes]

\* the configurations given to the constructor
InitialConfigs ==
  { DefaultConfig, [DefaultConfig EXCEPT !.unloadDistance = NearUnloadDistance] }

\* the ChunkLoader after construction
LoaderInit ==
  /\ now = StartTime
  /\ quality \in Qualities
  /\ config \in InitialConfigs
  /\ chunks = <<>>
  /\ loadingTasks = <<>>
  /\ loadingQueue = <<>>
  /\ camera = NoPosition
  /\ cameraHistory = <<>>
  /\ frameCount = 0
  /\ lastChunkCreationPosition = NoPosition
  /\ lastChunkCreationTime = 0
  /\ lastQualityCheck = 0
  /\ performanceMetrics = [loadSuccess |-> 0, loadErrors |-> 0,
                           totalMemoryUsage |-> 0, qualityAdjustments |-> 0]
  /\ octreeStars = <<>>
  /\ visibleNodes = <<>>
  /\ pendingLoads = <<>>
  /\ pc = "idle"
  /\ chunksCreated = 0
  /\ tickLog = <<>>

\* the second loader after construction, with predictiveLoading off
NewTwin ==
  [s |-> [chunks |-> <<>>, tasks |-> <<>>, pending |-> <<>>, queue |-> <<>>,
          metrics |-> [loadSuccess |-> 0, loadErrors |-> 0,
                       totalMemoryUsage |-> 0, qualityAdjustments |-> 0],
          octree |-> <<>>, created |-> 0, log |-> <<>>],
   config |-> [DefaultConfig EXCEPT !.predictiveLoading = FALSE],
   frameCount |-> 0,
   lastChunkCreationPosition |-> NoPosition,
   lastChunkCreationTime |-> 0]

\* no priorities compared yet
NoProbe ==
  [distanceA |-> 0, distanceB |-> 0, predictedDistance |-> 0, lodLevel |-> 0,
   done |-> FALSE, priorityA |-> 0, priorityB |-> 0]

\* nothing asked yet of the subsystems outside the chunk loader and the octree
ExtraInit ==
  /\ material = NewMaterial
  /\ route = NoRoute
  /\ starField = NoStarField
  /\ cell = NoCell
  /\ picker = NoPicker
  /\ manager = NewManager
  /\ scene = NoScene
  /\ clears = NoClears

AuxInit ==
  /\ twin = NewTwin
  /\ probe = NoProbe
  /\ tree = NewOctree
  /\ inserted = <<>>
  /\ ExtraInit

Init == LoaderInit /\ AuxInit

Loader ==
  [chunks |-> chunks, tasks |-> loadingTasks, pending |-> pendingLoads,
   queue |-> loadingQueue, metrics |-> performanceMetrics, octree |-> octreeStars,
   created |-> chunksCreated, log |-> tickLog]

Commit(s) ==
  /\ chunks' = s.chunks
  /\ loadingTasks' = s.tasks
  /\ pendingLoads' = s.pending
  /\ loadingQueue' = s.queue
  /\ performanceMetrics' = s.metrics
  /\ octreeStars' = s.octree
  /\ chunksCreated' = s.created
  /\ tickLog' = s.log

CurrentLOD == getOptimalLOD3D(camera)

Predicted == PredictedPosition(config, cameraHistory, camera)

\* update(camera), lines 213-227: camera history, checkQualityAdjustments, frameCount
UpdateBegin(cam, dt, maxFrames) ==
  /\ pc = "idle"
  /\ frameCount < maxFrames
  \* the engine's first call, at the spawn position
  /\ camera = NoPosition => (cam = BasePosition /\ dt = FrameMs)
  /\ now' = now + dt
  /\ camera' = cam
  /\ cameraHistory' = LET h == Append(cameraHistory, cam)
                      IN IF Len(h) > HistoryLimit THEN Tail(h) ELSE h
  /\ IF now' - lastQualityCheck < QualityCheckInterval
     THEN UNCHANGED << lastQualityCheck, config, performanceMetrics >>
     ELSE LET r == adjustChunkLoadingParameters(config, quality, performanceMetrics)
          IN /\ lastQualityCheck' = now'
             /\ config' = r.cfg
             /\ performanceMetrics' = r.metrics
  /\ frameCount' = frameCount + 1
  /\ pc' = "priorities"
  /\ chunksCreated' = 0
  /\ tickLog' = <<>>
  /\ UNCHANGED << quality, chunks, loadingTasks, loadingQueue,
                  lastChunkCreationPosition, lastChunkCreationTime, octreeStars,
                  visibleNodes, pendingLoads >>
  /\ UNCHANGED aux

\* updateChunkPriorities, lines 269-280: the priorities of the known chunks and
\* the decision to run a creation pass
UpdatePriorities ==
  /\ pc = "priorities"
  /\ chunks' = [i \in 1..Len(chunks) |->
                  [chunks[i] EXCEPT !.priority =
                     ChunkPriority(chunks[i].bounds, camera, Predicted, CurrentLOD)]]
  /\ tickLog' = <<[ev |-> "priorities", id |-> NoPosition]>>
                 \o (IF /\ lastChunkCreationPosition # NoPosition
                        /\ PointCloserThan(camera, lastChunkCreationPosition,
                                           ChunkCreationThreshold)
                     THEN <<[ev |-> "withinThreshold", id |-> NoPosition]>>
                     ELSE <<>>)
  /\ pc' = IF \/ lastChunkCreationPosition = NoPosition
              \/ shouldCreateNewChunks(camera, lastChunkCreationPosition,
                                       lastChunkCreationTime, now)
           THEN "createForward" ELSE "requeue"
  /\ UNCHANGED << now, quality, config, loadingTasks, loadingQueue, camera,
                  cameraHistory, frameCount, lastChunkCreationPosition,
                  lastChunkCreationTime, lastQualityCheck, performanceMetrics,
                  octreeStars, visibleNodes, pendingLoads, chunksCreated >>
  /\ UNCHANGED aux

\* createChunksAroundCamera, lines 387-434: the forward chunks and their loads
CreateForwardChunks ==
  /\ pc = "createForward"
  /\ Commit(createForwardChunks(Loader, 1, getAdaptiveChunkSize(quality),
                                MaxChunks(config), camera, CurrentLOD, Predicted))
  /\ pc' = "createGrid"
  /\ UNCHANGED << now, quality, config, camera, cameraHistory, frameCount,
                  lastChunkCreationPosition, lastChunkCreationTime,
                  lastQualityCheck, visibleNodes >>
  /\ UNCHANGED aux

\* createChunksAroundCamera, lines 436-460, and lines 282-283
CreateGridChunks ==
  /\ pc = "createGrid"
  /\ Commit(createGridChunks(Loader, 1, getAdaptiveChunkSize(quality),
                             MaxChunks(config), camera, CurrentLOD, Predicted))
  /\ lastChunkCreationPosition' = camera
  /\ lastChunkCreationTime' = now
  /\ pc' = "requeue"
  /\ UNCHANGED << now, quality, config, camera, cameraHistory, frameCount,
                  lastQualityCheck, visibleNodes >>
  /\ UNCHANGED aux

\* updateChunkPriorities, line 291
Requeue ==
  /\ pc = "requeue"
  /\ Commit(updateLoadingQueue(Loader))
  /\ pc' = "visible"
  /\ UNCHANGED << now, quality, config, camera, cameraHistory, frameCount,
                  lastChunkCreationPosition, lastChunkCreationTime,
                  lastQualityCheck, visibleNodes >>
  /\ UNCHANGED aux

\* updateChunkPriorities, lines 294-318
AddVisibleNodeChunks ==
  /\ pc = "visible"
  /\ Commit(updateLoadingQueue(
              addVisibleNodeChunks(Loader, visibleNodes, 1, camera, CurrentLOD,
                                   Predicted)))
  /\ pc' = "drain"
  /\ UNCHANGED << now, quality, config, camera, cameraHistory, frameCount,
                  lastChunkCreationPosition, lastChunkCreationTime,
                  lastQualityCheck, visibleNodes >>
  /\ UNCHANGED aux

\* update, line 233
ProcessLoadingQueue ==
  /\ pc = "drain"
  /\ Commit(processLoadingQueue(Logged(Loader, "drain", NoPosition), config))
  /\ pc' = "unload"
  /\ UNCHANGED << now, quality, config, camera, cameraHistory, frameCount,
                  lastChunkCreationPosition, lastChunkCreationTime,
                  lastQualityCheck, visibleNodes >>
  /\ UNCHANGED aux

\* update, line 236
UnloadDistantChunks ==
  /\ pc = "unload"
  /\ Commit(unloadDistantChunks(Loader, camera, config))
  /\ pc' = "memory"
  /\ UNCHANGED << now, quality, config, camera, cameraHistory, frameCount,
                  lastChunkCreationPosition, lastChunkCreationTime,
                  lastQualityCheck, visibleNodes >>
  /\ UNCHANGED aux

\* faulty variant: the governor runs on every tick
ManageMemoryEveryTick ==
  /\ pc = "memory"
  /\ Commit(manageMemory(Logged(Loader, "memory", NoPosition), config))
  /\ pc' = "idle"
  /\ UNCHANGED << now, quality, config, camera, cameraHistory, frameCount,
                  lastChunkCreationPosition, lastChunkCreationTime,
                  lastQualityCheck, visibleNodes >>
  /\ UNCHANGED aux

\* update, lines 239-242
ManageMemory ==
  /\ pc = "memory"
  /\ Commit(IF frameCount % MemoryCheckFrames = 0
            THEN manageMemory(Logged(Loader, "memory", NoPosition), config)
            ELSE Loader)
  /\ pc' = "idle"
  /\ UNCHANGED << now, quality, config, camera, cameraHistory, frameCount,
                  lastChunkCreationPosition, lastChunkCreationTime,
                  lastQualityCheck, visibleNodes >>
  /\ UNCHANGED aux

\* faulty variant: the finally block is missing, the task stays
finishLoadKeepTask(s, chunkId) ==
  [onChunkLoaded(s, chunkId, StarsInChunk(ChunkById(s.chunks, chunkId).bounds))
     EXCEPT !.pending = Tail(@)]

\* the idle callback of loadChunkData resolves; startLoadingChunk continues with
\* onChunkLoaded and its finally block.  Idle callbacks run in the order in
\* which they were requested.
finishLoad(s, chunkId) ==
  [onChunkLoaded(s, chunkId, StarsInChunk(ChunkById(s.chunks, chunkId).bounds))
     EXCEPT !.tasks = RemoveKey(@, chunkId), !.pending = Tail(@)]

\* the idle callback rejects; startLoadingChunk continues with onChunkLoadError
\* and its finally block
failLoad(s, chunkId) ==
  [Logged(onChunkLoadError(s, chunkId), "error", chunkId)
     EXCEPT !.tasks = RemoveKey(@, chunkId), !.pending = Tail(@)]

LoadComplete(chunkId) ==
  /\ pc = "idle"
  /\ pendingLoads # <<>>
  /\ chunkId = Head(pendingLoads)
  /\ Commit(finishLoad(Loader, chunkId))
  /\ UNCHANGED << now, quality, config, camera, cameraHistory, frameCount,
                  lastChunkCreationPosition, lastChunkCreationTime,
                  lastQualityCheck, visibleNodes, pc >>
  /\ UNCHANGED aux

LoadFail(chunkId) ==
  /\ pc = "idle"
  /\ pendingLoads # <<>>
  /\ chunkId = Head(pendingLoads)
  /\ performanceMetrics.loadErrors < MaxLoadErrors
  /\ Commit(failLoad(Loader, chunkId))
  /\ UNCHANGED << now, quality, config, camera, cameraHistory, frameCount,
                  lastChunkCreationPosition, lastChunkCreationTime,
                  lastQualityCheck, visibleNodes, pc >>
  /\ UNCHANGED aux

OctreeStarCount ==
  LET RECURSIVE Sum(_)
      Sum(S) == IF S = {} THEN 0
                ELSE LET k == CHOOSE x \in S : TRUE IN octreeStars[k] + Sum(S \ {k})
  IN Sum(DOMAIN octreeStars)

\* the engine's octree.updateVisibility(camera) after update(): the leaves that
\* hold stars and meet the frustum
UpdateVisibility(shown) ==
  /\ pc = "idle"
  /\ camera # NoPosition
  /\ OctreeStarCount > 0
  /\ visibleNodes' = SelectSeq(NodeCandidates, LAMBDA n : n \in shown)
  /\ visibleNodes' # visibleNodes
  /\ UNCHANGED << now, quality, config, chunks, loadingTasks, loadingQueue, camera,
                  cameraHistory, frameCount, lastChunkCreationPosition,
                  lastChunkCreationTime, lastQualityCheck, performanceMetrics,
                  octreeStars, pendingLoads, pc, chunksCreated, tickLog >>
  /\ UNCHANGED aux

NodeSet == { NodeCandidates[i] : i \in 1..Len(NodeCandidates) }

Update ==
  \E cam \in CameraPositions, dt \in {FrameMs, SlowFrameMs} :
    UpdateBegin(cam, dt, MaxFrames)

Completion == \E id \in DOMAIN loadingTasks : LoadComplete(id)

Failure == \E id \in DOMAIN loadingTasks : LoadFail(id)

Visibility == \E shown \in SUBSET NodeSet : UpdateVisibility(shown)

Next ==
  \/ Update
  \/ UpdatePriorities
  \/ CreateForwardChunks
  \/ CreateGridChunks
  \/ Requeue
  \/ AddVisibleNodeChunks
  \/ ProcessLoadingQueue
  \/ UnloadDistantChunks
  \/ ManageMemory
  \/ Completion
  \/ Failure
  \/ Visibility

Spec == Init /\ [][Next]_vars

(***************************************************************************)
(* The camera at rest for two seconds of frames: long enough for the       *)
(* memory governor, which runs on every 120th tick.  Every idle callback   *)
(* runs within MaxLoadFrames ticks of its request.                         *)
(***************************************************************************)
LoadsAreDue ==
  \E i \in 1..Len(pendingLoads) :
    now - loadingTasks[pendingLoads[i]].startTime >= (MaxLoadFrames - 1) * FrameMs

SteadyUpdate ==
  /\ ~LoadsAreDue
  /\ UpdateBegin(BasePosition, FrameMs, MaxFramesSteady)

NextSteady ==
  \/ SteadyUpdate
  \/ UpdatePriorities
  \/ CreateForwardChunks
  \/ CreateGridChunks
  \/ Requeue
  \/ AddVisibleNodeChunks
  \/ ProcessLoadingQueue
  \/ UnloadDistantChunks
  \/ ManageMemory
  \/ Completion
  \/ Failure

SpecSteady == Init /\ [][NextSteady]_vars

(***************************************************************************)
(* The camera at rest with update called again and again, the octree       *)
(* reporting its visible leaf or not.  Fairness: update() is synchronous   *)
(* and runs to its end, so a tick that has begun comes back to "idle"; the *)
(* render loop keeps calling update; an idle callback that was requested   *)
(* runs, and resolves or rejects.                                          *)
(***************************************************************************)
ServeUpdate ==
  /\ ~LoadsAreDue
  /\ UpdateBegin(BasePosition, FrameMs, MaxFramesServe)

NextServe ==
  \/ ServeUpdate
  \/ UpdatePriorities
  \/ CreateForwardChunks
  \/ CreateGridChunks
  \/ Requeue
  \/ AddVisibleNodeChunks
  \/ ProcessLoadingQueue
  \/ UnloadDistantChunks
  \/ ManageMemory
  \/ Completion
  \/ Failure
  \/ Visibility

SpecServe ==
  /\ Init
  /\ [][NextServe]_vars
  /\ []<>(pc = "idle")
  /\ WF_vars(ServeUpdate)
  /\ WF_vars(Completion \/ Failure)

(***************************************************************************)
(* Unmount: the engine's cleanup effect calls chunkLoader.clear() and then *)
(* octree.clear().  It runs between frames.  An idle callback that runs    *)
(* after it finds no chunk (onChunkLoaded and onChunkLoadError return) and *)
(* deletes a task that is already gone, so the callbacks still scheduled   *)
(* are dropped here.                                                       *)
(***************************************************************************)
\* ChunkLoader.clear
clearLoader(s) ==
  [s EXCEPT !.chunks = <<>>, !.tasks = <<>>, !.queue = <<>>, !.pending = <<>>,
            !.metrics = [loadSuccess |-> 0, loadErrors |-> 0,
                         totalMemoryUsage |-> 0, qualityAdjustments |-> 0]]

\* StarOctree.clear: clearNode disposes the geometry and the material of every
\* mesh and leaves node.stars as they are; visibleNodes is emptied.
clearOctree(s) == s

Teardown ==
  /\ pc = "idle"
  /\ camera # NoPosition
  /\ Commit(Logged(clearOctree(clearLoader(Loader)), "clear", NoPosition))
  /\ cameraHistory' = <<>>
  /\ visibleNodes' = <<>>
  /\ pc' = "cleared"
  /\ UNCHANGED << now, quality, config, camera, frameCount,
                  lastChunkCreationPosition, lastChunkCreationTime,
                  lastQualityCheck >>
  /\ UNCHANGED aux

TeardownUpdate == UpdateBegin(BasePosition, FrameMs, MaxFramesTeardown)

NextTeardown ==
  \/ TeardownUpdate
  \/ UpdatePriorities
  \/ CreateForwardChunks
  \/ CreateGridChunks
  \/ Requeue
  \/ AddVisibleNodeChunks
  \/ ProcessLoadingQueue
  \/ UnloadDistantChunks
  \/ ManageMemory
  \/ Completion
  \/ Failure
  \/ Visibility
  \/ Teardown

SpecTeardown == Init /\ [][NextTeardown]_vars

(***************************************************************************)
(* The default configuration, with a camera that jumps between the spawn   *)
(* position and a position further than unloadDistance from the chunks     *)
(* loaded at the spawn position, and may stay where it is.                 *)
(***************************************************************************)
JumpPositions == { BasePosition, [BasePosition EXCEPT ![3] = @ + JumpLength] }

InitJump == Init /\ config = DefaultConfig

JumpUpdate ==
  \E cam \in JumpPositions, dt \in {FrameMs, SlowFrameMs} :
    UpdateBegin(cam, dt, MaxFramesJump)

NextJump ==
  \/ JumpUpdate
  \/ UpdatePriorities
  \/ CreateForwardChunks
  \/ CreateGridChunks
  \/ Requeue
  \/ AddVisibleNodeChunks
  \/ ProcessLoadingQueue
  \/ UnloadDistantChunks
  \/ ManageMemory
  \/ Completion
  \/ Failure
  \/ Visibility

SpecJump == InitJump /\ [][NextJump]_vars

(***************************************************************************)
(* The loader with clear() called between ticks while the page stays       *)
(* mounted.  The idle callbacks requested before a clear() are not         *)
(* cancelled by it: they run later, in the order in which they were        *)
(* requested, so the loads started before the last clear() are the first   *)
(* clears.stale entries of pendingLoads.                                   *)
(***************************************************************************)
ClearPositions == { BasePosition, [BasePosition EXCEPT ![3] = @ + ClearStep] }

\* faulty variant: the entries of loadingTasks are kept
clearKeepTasks(s) ==
  [s EXCEPT !.chunks = <<>>, !.queue = <<>>,
            !.metrics = [loadSuccess |-> 0, loadErrors |-> 0,
                         totalMemoryUsage |-> 0, qualityAdjustments |-> 0]]

\* ChunkLoader.clear
clear(s) ==
  [s EXCEPT !.chunks = <<>>, !.tasks = <<>>, !.queue = <<>>,
            !.metrics = [loadSuccess |-> 0, loadErrors |-> 0,
                         totalMemoryUsage |-> 0, qualityAdjustments |-> 0]]

Clear ==
  /\ pc = "idle"
  /\ camera # NoPosition
  /\ clears.count < MaxClears
  /\ Commit(Logged(clear(Loader), "clear", NoPosition))
  /\ cameraHistory' = <<>>
  /\ clears' = [count |-> clears.count + 1, stale |-> Len(pendingLoads)]
  /\ UNCHANGED << now, quality, config, camera, frameCount,
                  lastChunkCreationPosition, lastChunkCreationTime,
                  lastQualityCheck, visibleNodes, pc >>
  /\ UNCHANGED << twin, probe, tree, inserted, material, route, starField, cell, picker, manager, scene >>

\* the idle callback of the oldest pending load resolves
CallbackResolves ==
  /\ pc = "idle"
  /\ pendingLoads # <<>>
  /\ Commit(finishLoad(Loader, Head(pendingLoads)))
  /\ clears' = [clears EXCEPT !.stale = Max(0, @ - 1)]
  /\ UNCHANGED << now, quality, config, camera, cameraHistory, frameCount,
                  lastChunkCreationPosition, lastChunkCreationTime,
                  lastQualityCheck, visibleNodes, pc >>
  /\ UNCHANGED << twin, probe, tree, inserted, material, route, starField, cell, picker, manager, scene >>

\* the idle callback of the oldest pending load rejects
CallbackRejects ==
  /\ pc = "idle"
  /\ pendingLoads # <<>>
  /\ performanceMetrics.loadErrors < MaxLoadErrors
  /\ Commit(failLoad(Loader, Head(pendingLoads)))
  /\ clears' = [clears EXCEPT !.stale = Max(0, @ - 1)]
  /\ UNCHANGED << now, quality, config, camera, cameraHistory, frameCount,
                  lastChunkCreationPosition, lastChunkCreationTime,
                  lastQualityCheck, visibleNodes, pc >>
  /\ UNCHANGED << twin, probe, tree, inserted, material, route, starField, cell, picker, manager, scene >>

ClearUpdate ==
  \E cam \in ClearPositions, dt \in {FrameMs, SlowFrameMs} :
    UpdateBegin(cam, dt, MaxFramesClear)

NextClear ==
  \/ ClearUpdate
  \/ UpdatePriorities
  \/ CreateForwardChunks
  \/ CreateGridChunks
  \/ Requeue
  \/ AddVisibleNodeChunks
  \/ ProcessLoadingQueue
  \/ UnloadDistantChunks
  \/ ManageMemory
  \/ CallbackResolves
  \/ CallbackRejects
  \/ Visibility
  \/ Clear

SpecClear == InitJump /\ [][NextClear]_vars

(***************************************************************************)
(* Two loaders fed the same camera positions at the same times, the first  *)
(* with predictiveLoading on, the second (twin) with it off.  The second   *)
(* runs its update() in one step after the first has run its own.  Every   *)
(* idle callback of both runs before the next frame, and the engine looks  *)
(* at the octree when both hold the same stars, so that both loaders are   *)
(* given the same visible nodes.                                           *)
(***************************************************************************)
PairPositions ==
  { BasePosition,
    [BasePosition EXCEPT ![3] = @ + PairDistance],
    [BasePosition EXCEPT ![3] = @ + PairDistance + PairStep] }

\* update(camera) of the second loader, lines 213-242
twinUpdate(t, cam, history, q, nodes) ==
  LET adjusted == IF lastQualityCheck = now
                  THEN adjustChunkLoadingParameters(t.config, q, t.s.metrics)
                  ELSE [cfg |-> t.config, metrics |-> t.s.metrics]
      cfg == adjusted.cfg
      frame == t.frameCount + 1
      predictedPosition == PredictedPosition(cfg, history, cam)
      lodLevel == getOptimalLOD3D(cam)
      s0 == [t.s EXCEPT !.metrics = adjusted.metrics, !.created = 0, !.log = <<>>]
      s1 == [s0 EXCEPT !.chunks =
               [i \in 1..Len(s0.chunks) |->
                  [s0.chunks[i] EXCEPT !.priority =
                     ChunkPriority(s0.chunks[i].bounds, cam, predictedPosition,
                                   lodLevel)]]]
      pass == \/ t.lastChunkCreationPosition = NoPosition
              \/ shouldCreateNewChunks(cam, t.lastChunkCreationPosition,
                                       t.lastChunkCreationTime, now)
      s2 == IF pass
            THEN createGridChunks(
                   createForwardChunks(s1, 1, getAdaptiveChunkSize(q),
                                       MaxChunks(cfg), cam, lodLevel,
                                       predictedPosition),
                   1, getAdaptiveChunkSize(q), MaxChunks(cfg), cam, lodLevel,
                   predictedPosition)
            ELSE s1
      s3 == updateLoadingQueue(s2)
      s4 == updateLoadingQueue(
              addVisibleNodeChunks(s3, nodes, 1, cam, lodLevel, predictedPosition))
      s5 == processLoadingQueue(Logged(s4, "drain", NoPosition), cfg)
      s6 == unloadDistantChunks(s5, cam, cfg)
      s7 == IF frame % MemoryCheckFrames = 0
            THEN manageMemory(Logged(s6, "memory", NoPosition), cfg)
            ELSE s6
  IN [s |-> s7,
      config |-> cfg,
      frameCount |-> frame,
      lastChunkCreationPosition |-> IF pass THEN cam ELSE t.lastChunkCreationPosition,
      lastChunkCreationTime |-> IF pass THEN now ELSE t.lastChunkCreationTime]

InitPair ==
  /\ LoaderInit
  /\ config = DefaultConfig
  /\ AuxInit

BothSettled ==
  /\ twin.frameCount = frameCount
  /\ pendingLoads = <<>>
  /\ twin.s.pending = <<>>

PairUpdate ==
  /\ BothSettled
  /\ \E cam \in PairPositions, dt \in {FrameMs, SlowFrameMs} :
       UpdateBegin(cam, dt, MaxFramesPair)

TwinUpdate ==
  /\ pc = "idle"
  /\ twin.frameCount < frameCount
  /\ twin' = twinUpdate(twin, camera, cameraHistory, quality, visibleNodes)
  /\ UNCHANGED << loaderVars, probe, tree, inserted, extra >>

PairCompletion ==
  /\ twin.frameCount = frameCount
  /\ Completion

TwinCompletion ==
  /\ pc = "idle"
  /\ twin.frameCount = frameCount
  /\ pendingLoads = <<>>
  /\ twin.s.pending # <<>>
  /\ twin' = [twin EXCEPT !.s = finishLoad(twin.s, Head(twin.s.pending))]
  /\ UNCHANGED << loaderVars, probe, tree, inserted, extra >>

PairVisibility ==
  /\ BothSettled
  /\ twin.s.octree = octreeStars
  /\ Visibility

NextPair ==
  \/ PairUpdate
  \/ UpdatePriorities
  \/ CreateForwardChunks
  \/ CreateGridChunks
  \/ Requeue
  \/ AddVisibleNodeChunks
  \/ ProcessLoadingQueue
  \/ UnloadDistantChunks
  \/ ManageMemory
  \/ TwinUpdate
  \/ PairCompletion
  \/ TwinCompletion
  \/ PairVisibility

SpecPair == InitPair /\ [][NextPair]_vars

(***************************************************************************)
(* calculatePriority on its own: two chunks with the same predicted        *)
(* distance and the same LOD level.                                        *)
(***************************************************************************)
PriorityDistances == { 0, 1, 500, 999, 1000, 1001, MaxProbeDistance }

PredictedDistances == { 0, 499, 500, MaxProbeDistance }

LodLevels == 0..MaxLodLevel

InitPriority ==
  /\ LoaderInit
  /\ quality = "medium"
  /\ config = DefaultConfig
  /\ twin = NewTwin
  /\ tree = NewOctree
  /\ inserted = <<>>
  /\ ExtraInit
  /\ \E dA \in PriorityDistances, dB \in PriorityDistances,
        pd \in PredictedDistances, lod \in LodLevels :
       probe = [NoProbe EXCEPT !.distanceA = dA, !.distanceB = dB,
                               !.predictedDistance = pd, !.lodLevel = lod]

ComparePriorities ==
  /\ ~probe.done
  /\ probe' = [probe EXCEPT
       !.done = TRUE,
       !.priorityA = calculatePriority(probe.distanceA, probe.predictedDistance,
                                       probe.lodLevel),
       !.priorityB = calculatePriority(probe.distanceB, probe.predictedDistance,
                                       probe.lodLevel)]
  /\ UNCHANGED << loaderVars, twin, tree, inserted, extra >>

NextPriority == ComparePriorities

SpecPriority == InitPriority /\ [][NextPriority]_vars

(***************************************************************************)
(* StarOctree on its own: a sequence of insert calls.                      *)
(***************************************************************************)
InitOctree ==
  /\ LoaderInit
  /\ quality = "medium"
  /\ config = DefaultConfig
  /\ AuxInit

\* StarOctree.insert; the id of a star is its place in the sequence of calls
Insert(position) ==
  /\ Len(inserted) < MaxInserts
  /\ LET star == [id |-> Len(inserted) + 1, position |-> position]
     IN /\ tree' = insertRecursive(tree, <<>>, star)
        /\ inserted' = Append(inserted, star)
  /\ UNCHANGED << loaderVars, twin, probe, extra >>

NextOctree == \E position \in OctreePoints : Insert(position)

SpecOctree == InitOctree /\ [][NextOctree]_vars

(***************************************************************************)
(* The material of one node over animation frames: chunkLoader.update,     *)
(* then octree.updateVisibility, with changes of the quality settings      *)
(* between frames.                                                         *)
(***************************************************************************)
NodeDistances == { 100, 700, 3000 }

InitMaterial ==
  /\ LoaderInit
  /\ quality = "medium"
  /\ config = DefaultConfig
  /\ AuxInit

\* one animation frame
MaterialFrame(dt, distance, inFrustum) ==
  /\ material.frames < MaxMaterialFrames
  /\ material' = traverseVisibility(
                   updateOctreeQuality([material EXCEPT !.now = @ + dt,
                                                        !.frames = @ + 1]),
                   distance, inFrustum)
  /\ UNCHANGED << loaderVars, twin, probe, tree, inserted, route, starField, cell, picker, manager, scene, clears >>

\* the quality manager changes its settings, by itself or from the menu
QualityChange(q, automatic) ==
  /\ << q, automatic >> # << material.quality, material.isAutomatic >>
  /\ material' = [material EXCEPT !.quality = q, !.isAutomatic = automatic]
  /\ UNCHANGED << loaderVars, twin, probe, tree, inserted, route, starField, cell, picker, manager, scene, clears >>

Frame ==
  \E dt \in {FrameMs, MaterialUpdateInterval + 1}, distance \in NodeDistances,
     inFrustum \in BOOLEAN :
    MaterialFrame(dt, distance, inFrustum)

Settings == \E q \in Qualities, automatic \in BOOLEAN : QualityChange(q, automatic)

NextMaterial ==
  \/ Frame
  \/ Settings

SpecMaterial == InitMaterial /\ [][NextMaterial]_vars

(***************************************************************************)
(* validatePath on its own.                                                *)
(***************************************************************************)
\* results of octree.getStarsInFrustum around a point: none, just below and
\* just at the number that makes the density adequate
StarCounts == { 0, DenseStarCount - 1, DenseStarCount }

\* the paths of pathSegments + 1 points
SampledPaths == [1..(PathSegments + 1) -> StarCounts]

SegmentDistances == { ShortSegment, LongSegment }

InitValidate ==
  /\ LoaderInit
  /\ picker = NoPicker
  /\ manager = NewManager
  /\ scene = NoScene
  /\ clears = NoClears
  /\ quality = "medium"
  /\ config = DefaultConfig
  /\ twin = NewTwin
  /\ probe = NoProbe
  /\ tree = NewOctree
  /\ inserted = <<>>
  /\ material = NewMaterial
  /\ starField = NoStarField
  /\ cell = NoCell
  /\ \E counts \in SampledPaths, segmentDistance \in SegmentDistances :
       route = [done |-> FALSE, counts |-> counts,
                segmentDistance |-> segmentDistance, result |-> <<>>]

ValidatePath ==
  /\ ~route.done
  /\ route' = [route EXCEPT !.done = TRUE,
                            !.result = validatePath(route.counts,
                                                    route.segmentDistance)]
  /\ UNCHANGED << loaderVars, twin, probe, tree, inserted, material, starField, cell, picker, manager, scene, clears >>

NextValidate == ValidatePath

SpecValidate == InitValidate /\ [][NextValidate]_vars

(***************************************************************************)
(* adjustPath between two cameras, through scenes with regions that hold   *)
(* no stars.                                                               *)
(***************************************************************************)
Box(lo, hi) == [min |-> lo, max |-> hi]

\* the regions without stars of each scene
Worlds ==
  { {},
    { Box(<<1000, 1500, -100>>, <<2000, 2500, 100>>) },
    { Box(<<100, 1500, -100>>, <<2000, 3300, 100>>) },
    { Box(<<100, 1500, -100>>, <<2000, 3300, 100>>),
      Box(<<3100, 1000, -100>>, <<4000, 2500, 100>>) },
    { Box(<<-100, -100, 200>>, <<100, 100, 800>>) },
    { Box(<<500, 700, -100>>, <<1000, 1300, 100>>),
      Box(<<-150, 1150, -100>>, <<450, 1750, 100>>) },
    { Box(<<-20000, -20000, -20000>>, <<20000, 20000, 20000>>) } }

\* the pairs (start, end) of camera positions
Routes ==
  { << <<0, 0, 0>>, <<3000, 4000, 0>> >>,
    << <<3000, 4000, 0>>, <<0, 0, 0>> >>,
    << <<0, 0, 0>>, <<0, 0, 1000>> >>,
    << <<0, 0, 0>>, <<1500, 2000, 0>> >> }

Reroutings == [enabled : BOOLEAN, maxAttempts : 0..MaxAttempts]

InitAdjust ==
  /\ LoaderInit
  /\ picker = NoPicker
  /\ manager = NewManager
  /\ scene = NoScene
  /\ clears = NoClears
  /\ quality = "medium"
  /\ config = DefaultConfig
  /\ twin = NewTwin
  /\ probe = NoProbe
  /\ tree = NewOctree
  /\ inserted = <<>>
  /\ material = NewMaterial
  /\ starField = NoStarField
  /\ cell = NoCell
  /\ \E world \in Worlds, r \in Routes, rerouting \in Reroutings :
       route = [done |-> FALSE, world |-> world, startCamera |-> r[1],
                endCamera |-> r[2], rerouting |-> rerouting, result |-> <<>>]

AdjustPath ==
  /\ ~route.done
  /\ route' = [route EXCEPT !.done = TRUE,
                            !.result = adjustPath(route.world, route.startCamera,
                                                  route.endCamera, route.rerouting)]
  /\ UNCHANGED << loaderVars, twin, probe, tree, inserted, material, starField, cell, picker, manager, scene, clears >>

NextAdjust == AdjustPath

SpecAdjust == InitAdjust /\ [][NextAdjust]_vars

(***************************************************************************)
(* Calls of getStarPosition and getStarsInChunk, in any order.             *)
(***************************************************************************)
StarIndices == { -1, 0, 1, 2, TotalStars, TotalStars + 1 }

Seeds == { UniverseSeed, 7 }

\* the whole universe, one octant, a box of 100 units at the origin and a
\* box of 2000 units
ChunkBoxes ==
  { Box(<<-500000, -500000, -500000>>, <<500000, 500000, 500000>>),
    Box(<<0, 0, 0>>, <<500000, 500000, 500000>>),
    Box(<<-50, -50, -50>>, <<50, 50, 50>>),
    Box(<<1000, 1000, 1000>>, <<3000, 3000, 3000>>) }

InitStars ==
  /\ LoaderInit
  /\ picker = NoPicker
  /\ manager = NewManager
  /\ scene = NoScene
  /\ clears = NoClears
  /\ quality = "medium"
  /\ config = DefaultConfig
  /\ twin = NewTwin
  /\ probe = NoProbe
  /\ tree = NewOctree
  /\ inserted = <<>>
  /\ material = NewMaterial
  /\ route = NoRoute
  /\ starField = NoStarField
  /\ cell = NoCell

GetStarPosition(starIndex, seed) ==
  /\ Len(starField.calls) < MaxCalls
  /\ starField' =
       [starField EXCEPT !.calls =
          Append(@, [op |-> "getStarPosition", args |-> << starIndex, seed >>,
                     result |-> getStarPosition(starIndex, seed)])]
  /\ UNCHANGED << loaderVars, twin, probe, tree, inserted, material, route, cell, picker, manager, scene, clears >>

GetStarsInChunk(chunkBounds, seed) ==
  /\ Len(starField.calls) < MaxCalls
  /\ starField' =
       [starField EXCEPT !.calls =
          Append(@, [op |-> "getStarsInChunk", args |-> << chunkBounds, seed >>,
                     result |-> getStarsInChunk(chunkBounds, seed)])]
  /\ UNCHANGED << loaderVars, twin, probe, tree, inserted, material, route, cell, picker, manager, scene, clears >>

NextStars ==
  \/ \E starIndex \in StarIndices, seed \in Seeds : GetStarPosition(starIndex, seed)
  \/ \E chunkBounds \in ChunkBoxes, seed \in Seeds : GetStarsInChunk(chunkBounds, seed)

SpecStars == InitStars /\ [][NextStars]_vars

(***************************************************************************)
(* Loads of chunk data by the chunk loader.                                *)
(***************************************************************************)
\* what Math.random() returns during one load, in thousandths: some of the
\* sequences it can produce
RandomDraws ==
  { [k \in 1..(4 * Max(TotalStars, MinStarsPerChunk)) |-> 0],
    [k \in 1..(4 * Max(TotalStars, MinStarsPerChunk)) |-> 999],
    [k \in 1..(4 * Max(TotalStars, MinStarsPerChunk)) |-> (k * 37) % 1000] }

LoadChunkData(bounds, random) ==
  /\ Len(starField.calls) < MaxCalls
  /\ starField' =
       [starField EXCEPT !.calls =
          Append(@, [op |-> "loadChunkData", args |-> << bounds >>,
                     result |-> loadChunkData(bounds, random)])]
  /\ UNCHANGED << loaderVars, twin, probe, tree, inserted, material, route, cell, picker, manager, scene, clears >>

NextLoad == \E bounds \in ChunkBoxes, random \in RandomDraws : LoadChunkData(bounds, random)

SpecLoad == InitStars /\ [][NextLoad]_vars

(***************************************************************************)
(* One cell of the 2-D field, generated by the worker and by the fallback. *)
(***************************************************************************)
CellCoordinates == { -1, 2 }

Zooms == { 0, 3, 20, 41, 150, MaxZoom }

NoStars == [done |-> FALSE, stars |-> <<>>]

InitCell ==
  /\ LoaderInit
  /\ picker = NoPicker
  /\ manager = NewManager
  /\ scene = NoScene
  /\ clears = NoClears
  /\ quality = "medium"
  /\ config = DefaultConfig
  /\ twin = NewTwin
  /\ probe = NoProbe
  /\ tree = NewOctree
  /\ inserted = <<>>
  /\ material = NewMaterial
  /\ route = NoRoute
  /\ starField = NoStarField
  /\ \E cellX \in CellCoordinates, cellY \in CellCoordinates, zoom \in Zooms :
       \E seed \in { generateSeed(cellX, cellY, generateDynamicLOD(zoom).level),
                     UniverseSeed } :
         cell = [requested |-> TRUE, cellX |-> cellX, cellY |-> cellY,
                 zoom |-> zoom, seed |-> seed,
                 worker |-> NoStars, fallback |-> NoStars]

\* the worker answers the GENERATE_STARS message for the cell
WorkerOnMessage ==
  /\ cell.requested
  /\ ~cell.worker.done
  /\ cell' = [cell EXCEPT !.worker =
                [done |-> TRUE,
                 stars |-> workerOnMessage([cellX |-> cell.cellX, cellY |-> cell.cellY,
                                            zoom |-> cell.zoom,
                                            seed |-> cell.seed]).stars]]
  /\ UNCHANGED << loaderVars, twin, probe, tree, inserted, material, route, starField, picker, manager, scene, clears >>

\* the manager generates the cell on the main thread
GenerateStarsFallback ==
  /\ cell.requested
  /\ ~cell.fallback.done
  /\ cell' = [cell EXCEPT !.fallback =
                [done |-> TRUE,
                 stars |-> generateStarsFallback(cell.cellX, cell.cellY, cell.zoom,
                                                 cell.seed)]]
  /\ UNCHANGED << loaderVars, twin, probe, tree, inserted, material, route, starField, picker, manager, scene, clears >>

NextCell == WorkerOnMessage \/ GenerateStarsFallback

SpecCell == InitCell /\ [][NextCell]_vars

(***************************************************************************)
(* Calls on useNumberPicker, in any order.  last is the call that led to   *)
(* the state: its name, its argument and the selection it found.           *)
(***************************************************************************)
InitPicker == LoaderInit /\ AuxInit

ToggleMainNumber(number) ==
  /\ picker' = [selectedMain |-> toggleNumber(picker.selectedMain, number, MaxMain),
                selectedLucky |-> picker.selectedLucky,
                last |-> << "toggleMainNumber", number, picker.selectedMain >>]
  /\ UNCHANGED << loaderVars, twin, probe, tree, inserted, material, route, starField, cell, manager, scene, clears >>

ToggleLuckyStar(number) ==
  /\ picker' = [selectedMain |-> picker.selectedMain,
                selectedLucky |-> toggleNumber(picker.selectedLucky, number, MaxLucky),
                last |-> << "toggleLuckyStar", number, picker.selectedLucky >>]
  /\ UNCHANGED << loaderVars, twin, probe, tree, inserted, material, route, starField, cell, manager, scene, clears >>

ResetSelection ==
  /\ picker' = [selectedMain |-> <<>>, selectedLucky |-> <<>>,
                last |-> << "resetSelection" >>]
  /\ UNCHANGED << loaderVars, twin, probe, tree, inserted, material, route, starField, cell, manager, scene, clears >>

NextPicker ==
  \/ \E number \in 1..MaxMainNumber : ToggleMainNumber(number)
  \/ \E number \in 1..MaxLuckyNumber : ToggleLuckyStar(number)
  \/ ResetSelection

SpecPicker == InitPicker /\ [][NextPicker]_vars

(***************************************************************************)
(* The octree under insert calls, the updateVisibility of the animation    *)
(* frame and validatePath calls of the camera guardrails, in any order.    *)
(* scene.last is the call that led to the state; a validatePath call keeps *)
(* the tree and the visible set it found in scene.before.                  *)
(***************************************************************************)
ScenePoints ==
  LET c == OctreeSize \div 2
  IN { <<1, 1, 1>>, <<c + 1, c + 1, c + 1>> }

\* the engine's camera: its position and the point it looks at
SceneCameras ==
  { [position |-> <<0, 0, 0>>,
     view |-> ViewBox(<<0, 0, 0>>, <<OctreeSize, OctreeSize, OctreeSize>>)],
    [position |-> <<OctreeSize, OctreeSize, OctreeSize>>,
     view |-> ViewBox(<<OctreeSize, OctreeSize, OctreeSize>>,
                      <<OctreeSize - 1, OctreeSize - 1, OctreeSize - 1>>)] }

\* the pairs (start, end) given to validatePath
SceneRoutes ==
  { << <<2, 2, 2>>, <<2, 2, 6>> >>,
    << <<OctreeSize, OctreeSize, OctreeSize>>, <<OctreeSize, OctreeSize, 2 * OctreeSize>> >> }

InitScene == InitOctree

SceneInsert(position) ==
  /\ Len(inserted) < MaxInserts
  /\ LET star == [id |-> Len(inserted) + 1, position |-> position]
     IN /\ tree' = insertRecursive(tree, <<>>, star)
        /\ inserted' = Append(inserted, star)
  /\ scene' = [scene EXCEPT !.last = "insert", !.before = <<>>]
  /\ UNCHANGED << loaderVars, twin, probe, material, route, starField, cell, picker, manager, clears >>

SceneUpdateVisibility(cam) ==
  /\ LET st == updateVisibilityTree(tree, cam, quality)
     IN /\ tree' = st.t
        /\ scene' = [visibleNodes |-> st.visible, last |-> "updateVisibility",
                     before |-> <<>>]
  /\ UNCHANGED << loaderVars, twin, probe, inserted, material, route, starField, cell, picker, manager, clears >>

GuardrailsValidatePath(startCamera, endCamera) ==
  /\ scene.last # "validatePath"
  /\ LET r == validatePathOnTree([t |-> tree, visible |-> scene.visibleNodes],
                                 generateCameraPath(startCamera, endCamera, PathSegments),
                                 1, 0, 0, quality)
     IN /\ tree' = r.t
        /\ scene' = [visibleNodes |-> r.visible, last |-> "validatePath",
                     before |-> << [tree |-> tree, visibleNodes |-> scene.visibleNodes] >>]
  /\ UNCHANGED << loaderVars, twin, probe, inserted, material, route, starField, cell, picker, manager, clears >>

NextScene ==
  \/ \E position \in ScenePoints : SceneInsert(position)
  \/ \E cam \in SceneCameras : SceneUpdateVisibility(cam)
  \/ \E r \in SceneRoutes : GuardrailsValidatePath(r[1], r[2])

SpecScene == InitScene /\ [][NextScene]_vars

(***************************************************************************)
(* The manager with its worker: calls of getStarsForCell, the worker       *)
(* answering, responses delivered, timers firing, a worker error and       *)
(* cleanup(), in any order.  A response that was posted before the worker  *)
(* was terminated may still be delivered.                                  *)
(***************************************************************************)
InitWorker == LoaderInit /\ AuxInit

managerRest == << loaderVars, twin, probe, tree, inserted, material, route, starField, cell, picker, scene, clears >>

GetStarsForCell(cellKey) ==
  /\ manager.requestCounter < MaxRequests
  /\ manager.direct < MaxDirect
  /\ manager' = getStarsForCell(manager, cellKey)
  /\ UNCHANGED managerRest

\* self.onmessage of the worker: one response per GENERATE_STARS message
WorkerAnswers(message) ==
  /\ manager.worker
  /\ message \in manager.toWorker
  /\ manager' = [manager EXCEPT !.toWorker = @ \ { message },
                                !.fromWorker = @ \cup { message }]
  /\ UNCHANGED managerRest

ManagerOnMessage(data) ==
  /\ data \in manager.fromWorker
  /\ manager' = managerOnMessage(manager, data)
  /\ UNCHANGED managerRest

RequestTimeout(requestId) ==
  /\ requestId \in manager.timers
  /\ manager' = requestTimeout(manager, requestId)
  /\ UNCHANGED managerRest

ManagerOnError ==
  /\ manager.worker
  /\ manager' = managerOnError(manager)
  /\ UNCHANGED managerRest

Cleanup ==
  /\ manager' = cleanup(manager)
  /\ UNCHANGED managerRest

Messages == [requestId : 1..MaxRequests, cellKey : CellKeys]

NextWorker ==
  \/ \E cellKey \in CellKeys : GetStarsForCell(cellKey)
  \/ \E message \in Messages : WorkerAnswers(message)
  \/ \E data \in Messages : ManagerOnMessage(data)
  \/ \E requestId \in 1..MaxRequests : RequestTimeout(requestId)
  \/ ManagerOnError
  \/ Cleanup

\* a timer that was set is never cancelled, so its callback runs
SpecWorker ==
  /\ InitWorker
  /\ [][NextWorker]_vars
  /\ \A requestId \in 1..MaxRequests : WF_vars(RequestTimeout(requestId))

(***************************************************************************)
(* Properties.  tickLog holds the events of the current frame in order:    *)
(* the markers "priorities", "withinThreshold", "drain" and "memory" of    *)
(* update(), and per chunk "create", "start", "unload", "loaded", "error". *)
(***************************************************************************)
LogIndices(ev) == { i \in 1..Len(tickLog) : tickLog[i].ev = ev }

LogIds(ev) == { tickLog[i].id : i \in LogIndices(ev) }

LoadedIndices(cs) == { i \in 1..Len(cs) : cs[i].loadState = "loaded" }

AllowedLoadStateChange(from, to) ==
  \/ from = to
  \/ << from, to >> \in { << "unloaded", "loading" >>, << "loading", "loaded" >>,
                         << "loading", "error" >>, << "loaded", "unloaded" >> }

\* C1: without clear(), every step leaves each chunk in the table and changes
\* its loadState only unloaded -> loading, loading -> loaded, loading -> error
\* or loaded -> unloaded.
C1_LoadStateTransitions ==
  [][\A i \in 1..Len(chunks) :
       /\ HasChunk(chunks', chunks[i].id)
       /\ AllowedLoadStateChange(chunks[i].loadState,
                                 ChunkById(chunks', chunks[i].id).loadState)]_vars

\* a chunk that was loaded, was evicted and is being loaded again, next to a
\* chunk whose load failed
C1_Witness ==
  /\ \E i \in 1..Len(chunks) :
       chunks[i].loadState = "loading" /\ chunks[i].id \in DOMAIN octreeStars
  /\ \E i \in 1..Len(chunks) : chunks[i].loadState = "error"

\* C2: the number of loads in flight never exceeds config.maxConcurrentLoads.
C2_InFlightWithinLimit ==
  Cardinality(DOMAIN loadingTasks) <= config.maxConcurrentLoads

\* C3: no chunk id is in loadingQueue and in loadingTasks at once, in every
\* state, those inside update() included.
C3_QueueDisjointFromTasks ==
  \A i \in 1..Len(loadingQueue) : loadingQueue[i] \notin DOMAIN loadingTasks

\* the queue has just been drained: a load was started from it, others wait
C3_Witness ==
  /\ pc = "unload"
  /\ loadingQueue # <<>>
  /\ \E i \in LogIndices("drain"), j \in LogIndices("start") : i < j

OverBudgetAtGovernor ==
  /\ pc = "memory"
  /\ frameCount % MemoryCheckFrames = 0
  /\ performanceMetrics.totalMemoryUsage > config.memoryLimit

\* C4: when manageMemory runs with the usage above the limit, the usage is at
\* or below the limit when it returns.
C4_GovernorReachesLimit ==
  [][OverBudgetAtGovernor =>
       performanceMetrics.totalMemoryUsage' <= config.memoryLimit]_vars

\* the governor has just evicted
C4_Witness ==
  /\ pc = "idle"
  /\ \E i \in LogIndices("memory"), j \in LogIndices("unload") : i < j
  /\ performanceMetrics.totalMemoryUsage <= config.memoryLimit

\* the length of the shortest prefix of ids whose memory, times five, reaches
\* target5
RECURSIVE PrefixNeeded(_, _, _)
PrefixNeeded(ids, freed5, target5) ==
  IF ids = <<>> \/ freed5 >= target5 THEN 0
  ELSE 1 + PrefixNeeded(Tail(ids),
                        freed5 + 5 * ChunkById(chunks, Head(ids)).memoryUsage,
                        target5)

\* C5: manageMemory evicts the loaded chunks in ascending lastAccessed order and
\* stops once the freed memory reaches usage - 0.8 * limit: the chunks after
\* that prefix are still loaded.
C5_EvictsLeastRecentPrefix ==
  [][OverBudgetAtGovernor =>
       LET order == lruLoaded(Loader)
           k == PrefixNeeded(order, 0,
                             5 * performanceMetrics.totalMemoryUsage
                               - 4 * config.memoryLimit)
       IN \A j \in 1..Len(order) :
            ChunkById(chunks', order[j]).loadState =
              (IF j <= k THEN "unloaded" ELSE "loaded")]_vars

RECURSIVE SumStarCount(_, _)
SumStarCount(cs, S) ==
  IF S = {} THEN 0
  ELSE LET i == CHOOSE x \in S : TRUE IN cs[i].starCount + SumStarCount(cs, S \ {i})

\* C6: the octree holds as many stars as the loaded chunks count together.
C6_OctreeMatchesLoadedChunks ==
  OctreeStarCount = SumStarCount(chunks, LoadedIndices(chunks))

DrainedBefore(j) == \E i \in LogIndices("drain") : i < j

\* C7 as stated: in one tick all chunk creation comes before every start of a
\* load and every start of a load comes before every unload.
C7_CreateThenStartThenUnload ==
  \A i, j \in 1..Len(tickLog) :
    i < j => /\ tickLog[j].ev # "priorities"
             /\ ~(tickLog[i].ev = "start" /\ tickLog[j].ev = "create")
             /\ ~(tickLog[i].ev = "unload" /\ tickLog[j].ev = "start")

\* C7: in one tick the priorities come first; chunks are created before the
\* queue is drained; a load started before the drain is the load of the chunk
\* created just before it by the creation pass; unloads come after the drain
\* and after the last start of a load.
C7_PhaseOrder ==
  \A j \in 1..Len(tickLog) :
    /\ tickLog[j].ev = "priorities" => j = 1
    /\ tickLog[j].ev = "create" => ~DrainedBefore(j)
    /\ (tickLog[j].ev = "start" /\ ~DrainedBefore(j)) =>
         (j > 1 /\ tickLog[j - 1] = [ev |-> "create", id |-> tickLog[j].id])
    /\ tickLog[j].ev = "unload" =>
         (DrainedBefore(j) /\ \A i \in LogIndices("start") : i < j)

\* a tick with a forward chunk loaded on creation, a load started from the
\* queue and an unload
C7_Witness ==
  /\ pc = "idle"
  /\ \E j \in LogIndices("start") : ~DrainedBefore(j)
  /\ \E j \in LogIndices("start") : DrainedBefore(j)
  /\ LogIndices("unload") # {}

\* C8: no chunk both enters 'loading' or 'loaded' and leaves 'loaded' within
\* one tick.
C8_NoLoadAndUnloadInOneTick ==
  (LogIds("start") \cup LogIds("loaded")) \cap LogIds("unload") = {}

\* a tick that started the load of one chunk and unloaded another
C8_Witness ==
  /\ pc = "idle"
  /\ LogIds("start") # {}
  /\ LogIds("unload") # {}

\* C9: processLoadingQueue starts min(maxConcurrentLoads - in flight, queue
\* length) loads, the chunks at the head of the queue, in queue order.
C9_StartsAsManyAsFit ==
  [][pc = "drain" =>
       LET slots == config.maxConcurrentLoads - Cardinality(DOMAIN loadingTasks)
           n == Max(0, Min(slots, Len(loadingQueue)))
       IN /\ pendingLoads' = pendingLoads \o SubSeq(loadingQueue, 1, n)
          /\ DOMAIN loadingTasks' =
               DOMAIN loadingTasks \cup { loadingQueue[i] : i \in 1..n }]_vars

WithinCreationThreshold == LogIndices("withinThreshold") # {}

VisibleNodeIds == { generateChunkId(visibleNodes[i]) : i \in 1..Len(visibleNodes) }

\* C10 as stated: on a tick after the first creation pass with the camera
\* within the creation threshold of the last creation position, no chunk is
\* added to the table.
C10_NoNewChunkWithinThreshold ==
  WithinCreationThreshold => LogIds("create") = {}

\* C10: on such a tick the only chunks added to the table are those of the
\* visible octree nodes.
C10_OnlyVisibleNodeChunksWithinThreshold ==
  (pc # "idle" /\ WithinCreationThreshold) => LogIds("create") \subseteq VisibleNodeIds

\* such a tick has added the chunk of a visible node
C10_Witness ==
  /\ pc # "idle"
  /\ WithinCreationThreshold
  /\ LogIds("create") # {}

\* C11: after the initial creation pass, a creation pass runs on a tick if and
\* only if the camera is at least chunkCreationThreshold from the last creation
\* position or at least chunkCreationCooldown ms have passed since the last
\* creation pass.
C11_PassIffMovedOrCooledDown ==
  [][(pc = "priorities" /\ lastChunkCreationPosition # NoPosition) =>
       ((pc' = "createForward") <=>
          \/ ~PointCloserThan(camera, lastChunkCreationPosition,
                              ChunkCreationThreshold)
          \/ now - lastChunkCreationTime >= ChunkCreationCooldown)]_vars

QueuedIds(q) == { q[i] : i \in 1..Len(q) }

\* C13: a chunk in 'error' stays in 'error': no step puts it in loadingQueue,
\* gives it a loadingTasks entry or changes its loadState.
C13_ErrorIsFinal ==
  [][\A i \in 1..Len(chunks) :
       chunks[i].loadState = "error" =>
         /\ HasChunk(chunks', chunks[i].id)
         /\ ChunkById(chunks', chunks[i].id).loadState = "error"
         /\ chunks[i].id \notin DOMAIN loadingTasks'
         /\ chunks[i].id \notin QueuedIds(loadingQueue')]_vars

\* a whole tick has run since the load of a chunk failed, and the chunk's
\* priority is positive
C13_Witness ==
  /\ pc = "idle"
  /\ tickLog # <<>>
  /\ LogIndices("error") = {}
  /\ \E i \in 1..Len(chunks) :
       chunks[i].loadState = "error" /\ chunks[i].priority > 0

\* C14: every load task has a deadline after which its loadingTasks entry is
\* removed and the chunk marked 'error': at the end of a tick no task is older
\* than the deadline, also when its idle callback has not run.
C14_NoTaskPastDeadline ==
  pc = "idle" =>
    \A id \in DOMAIN loadingTasks :
      now - loadingTasks[id].startTime <= LoadDeadlineMs

\* C16 as stated: in every tick in which the usage exceeds the limit when the
\* fifth step is reached, that step brings the usage to the limit or below.
C16_EvictsInEveryOverBudgetTick ==
  [][(pc = "memory" /\ performanceMetrics.totalMemoryUsage > config.memoryLimit) =>
       performanceMetrics.totalMemoryUsage' <= config.memoryLimit]_vars

\* C16: the fifth step of a tick runs the governor only when frameCount is a
\* multiple of 120: on such a tick an excess is evicted within the tick, on any
\* other tick the step changes neither the chunks nor the usage.
C16_GovernorEvery120thTick ==
  [][pc = "memory" =>
       IF frameCount % MemoryCheckFrames = 0
       THEN performanceMetrics.totalMemoryUsage > config.memoryLimit =>
              /\ performanceMetrics.totalMemoryUsage' <= config.memoryLimit
              /\ \E i \in LoadedIndices(chunks) : chunks'[i].loadState = "unloaded"
       ELSE /\ chunks' = chunks
            /\ performanceMetrics' = performanceMetrics
            /\ pc' = "idle"]_vars

\* a tick that is not a 120th one has ended with the usage above the limit
C16_Witness ==
  /\ pc = "idle"
  /\ frameCount > 1
  /\ frameCount % MemoryCheckFrames # 0
  /\ LogIndices("priorities") # {}
  /\ LogIndices("memory") = {}
  /\ performanceMetrics.totalMemoryUsage > config.memoryLimit

\* C15: right after teardown the chunk table, the task map and the queue are
\* empty, the memory and success/error counters are zero, the octree holds no
\* stars and its visible set is empty.
C15_TeardownLeavesNothing ==
  pc = "cleared" =>
    /\ chunks = <<>>
    /\ loadingTasks = <<>>
    /\ loadingQueue = <<>>
    /\ performanceMetrics.totalMemoryUsage = 0
    /\ performanceMetrics.loadSuccess = 0
    /\ performanceMetrics.loadErrors = 0
    /\ visibleNodes = <<>>
    /\ OctreeStarCount = 0

FarFromCamera(chunk, cameraPosition) ==
  PointFurtherThan(cameraPosition, Center(chunk.bounds), config.unloadDistance)

\* C17: with the default configuration, a chunk that unloadDistantChunks
\* unloads with the camera at p has a priority of zero or less at p whatever
\* the predicted position, and is beyond the forward chunks of p and was not
\* started in this tick; an unloaded chunk further than unloadDistance from p
\* is not in the queue rebuilt at p and does not start loading while the camera
\* is at p.
C17_DistanceRuleDoesNotFlap ==
  [][config.unloadDistance = DefaultUnloadDistance =>
       \A i \in 1..Len(chunks) :
         /\ (pc = "unload" /\ chunks[i].loadState = "loaded"
               /\ chunks'[i].loadState = "unloaded") =>
              /\ chunks[i].priority <= 0
              /\ calculatePriority(
                   calculateDistanceToChunk(camera, chunks[i].bounds), 0,
                   CurrentLOD) <= 0
              /\ PointFurtherThan(camera, Center(chunks[i].bounds),
                                  ForwardOffsets[Len(ForwardOffsets)])
              /\ chunks[i].id \notin LogIds("start")
         /\ (chunks[i].loadState = "unloaded" /\ camera' # NoPosition
               /\ FarFromCamera(chunks[i], camera')) =>
              /\ chunks'[i].loadState = "unloaded"
              /\ pc' \in {"visible", "drain", "unload", "memory", "idle"} =>
                   chunks[i].id \notin QueuedIds(loadingQueue')]_vars

\* the camera has stayed for a second tick at a position from which a chunk
\* that was loaded before is further than unloadDistance, and that chunk is
\* unloaded
C17_Witness ==
  /\ pc = "idle"
  /\ config.unloadDistance = DefaultUnloadDistance
  /\ Len(cameraHistory) >= 3
  /\ cameraHistory[Len(cameraHistory)] = cameraHistory[Len(cameraHistory) - 1]
  /\ \E i \in 1..Len(chunks) :
       /\ chunks[i].loadState = "unloaded"
       /\ chunks[i].id \in DOMAIN octreeStars
       /\ FarFromCamera(chunks[i], camera)

\* C18: for two chunks with the same predicted distance and the same LOD
\* level, the one strictly closer to the camera has a priority at least as
\* high as the other.
C18_CloserIsNotLower ==
  (probe.done /\ probe.distanceA < probe.distanceB) =>
    probe.priorityA >= probe.priorityB

\* the priorities of a closer and a further chunk have been computed, on both
\* sides of zero
C18_Witness ==
  /\ probe.done
  /\ probe.distanceA < probe.distanceB
  /\ probe.priorityA > 0
  /\ probe.priorityB <= 0

Leaves == { q \in DOMAIN tree : tree[q].children = <<>> }

Internal == DOMAIN tree \ Leaves

StoredIn(q, star) == { i \in 1..Len(tree[q].stars) : tree[q].stars[i] = star }

Volume(bounds) ==
  (bounds.max[1] - bounds.min[1]) * (bounds.max[2] - bounds.min[2])
    * (bounds.max[3] - bounds.min[3])

Inside(inner, outer) ==
  \A a \in 1..3 : inner.min[a] >= outer.min[a] /\ inner.max[a] <= outer.max[a]

\* the boxes share no volume: along some axis one ends where the other starts
NoSharedVolume(b1, b2) ==
  \E a \in 1..3 : b1.max[a] <= b2.min[a] \/ b2.max[a] <= b1.min[a]

RECURSIVE SumVolumes(_, _)
SumVolumes(q, k) ==
  IF k > Len(tree[q].children) THEN 0
  ELSE Volume(tree[tree[q].children[k]].bounds) + SumVolumes(q, k + 1)

\* C19: every inserted star that lies in the root bounds is stored once, in one
\* leaf whose bounds contain it; every internal node has 8 children and no
\* stars of its own; the boxes of the children lie in the box of the parent,
\* share no volume with each other and fill the parent.
C19_StarsInOneLeafChildrenPartition ==
  /\ \A i \in 1..Len(inserted) :
       pointInBounds(inserted[i].position, OctreeConfig.bounds) =>
         \E q \in Leaves :
           /\ Cardinality(StoredIn(q, inserted[i])) = 1
           /\ pointInBounds(inserted[i].position, tree[q].bounds)
           /\ \A r \in DOMAIN tree \ {q} : StoredIn(r, inserted[i]) = {}
  /\ \A q \in Internal :
       /\ Len(tree[q].children) = 8
       /\ tree[q].stars = <<>>
       /\ \A k \in 1..Len(tree[q].children) :
            /\ tree[q].children[k] \in DOMAIN tree
            /\ Inside(tree[tree[q].children[k]].bounds, tree[q].bounds)
            /\ \A m \in 1..Len(tree[q].children) :
                 m # k => NoSharedVolume(tree[tree[q].children[k]].bounds,
                                         tree[tree[q].children[m]].bounds)
       /\ SumVolumes(q, 1) = Volume(tree[q].bounds)

\* the root and one of its children have been split, and a star on the
\* dividing planes of the root is stored
C19_Witness ==
  /\ \E q \in Internal : q # <<>>
  /\ \E i \in 1..Len(inserted) :
       inserted[i].position = Center(OctreeConfig.bounds)

\* C20: every leaf below maxDepth holds at most maxStarsPerNode stars, and no
\* node is deeper than maxDepth.
C20_LeafCapBelowMaxDepth ==
  \A q \in DOMAIN tree :
    /\ tree[q].level <= OctreeConfig.maxDepth
    /\ (q \in Leaves /\ tree[q].level < OctreeConfig.maxDepth) =>
         Len(tree[q].stars) <= OctreeConfig.maxStarsPerNode

\* a leaf at maxDepth holds more than maxStarsPerNode stars, next to a leaf
\* below maxDepth that holds maxStarsPerNode
C20_Witness ==
  /\ \E q \in Leaves :
       /\ tree[q].level = OctreeConfig.maxDepth
       /\ Len(tree[q].stars) > OctreeConfig.maxStarsPerNode
  /\ \E q \in Leaves :
       /\ tree[q].level < OctreeConfig.maxDepth
       /\ Len(tree[q].stars) = OctreeConfig.maxStarsPerNode

CreatedIn(log) == { log[i].id : i \in { j \in 1..Len(log) : log[j].ev = "create" } }

\* the chunks whose load was started at some time: they are loading, loaded or
\* in error, or their stars are in the octree
EverStarted(cs, octree) ==
  { cs[i].id : i \in { j \in 1..Len(cs) : cs[j].loadState # "unloaded" } }
    \cup DOMAIN octree

\* C12: for two loaders fed the same camera positions, one with
\* predictiveLoading on and one with it off, after each tick the chunks
\* created in the tick are the same and the chunks ever started loading are
\* the same.
C12_PredictionOnlyReorders ==
  (pc = "idle" /\ twin.frameCount = frameCount) =>
    /\ CreatedIn(tickLog) = CreatedIn(twin.s.log)
    /\ EverStarted(chunks, octreeStars) = EverStarted(twin.s.chunks, twin.s.octree)

\* C21: two assignments to the material of a node's mesh are at least
\* materialUpdateInterval apart.
C21_MaterialUpdatesThrottled ==
  Len(material.assigned) = 2 =>
    material.assigned[2] - material.assigned[1] >= MaterialUpdateInterval

\* the points of the run of low-density points that ends at point i
LowRun(counts, i) ==
  { j \in 1..i : \A k \in j..i : lowDensity(counts[k]) }

\* the running distance at point i: one segment for every point of the run
\* but the first point of the path
RunningDistance(counts, segmentDistance, i) ==
  segmentDistance * Cardinality(LowRun(counts, i) \ {1})

LowPoints(counts) == { i \in 1..Len(counts) : lowDensity(counts[i]) }

\* C22: validatePath returns isValid = false exactly when the running distance
\* through consecutive low-density points exceeds maxEmptyDistance at some
\* point, or more than half of the sampled points are low-density.
C22_InvalidIffEmptyRunOrMajorityLow ==
  route.done =>
    (~route.result.isValid <=>
       \/ \E i \in 1..Len(route.counts) :
            RunningDistance(route.counts, route.segmentDistance, i)
              > MaxEmptyDistance
       \/ Cardinality(LowPoints(route.counts)) * 2 > Len(route.counts))

\* a path found invalid for its majority of low-density points only, its low
\* runs being kept short by a point of adequate density
C22_Witness ==
  /\ route.done
  /\ ~route.result.isValid
  /\ \A i \in 1..Len(route.counts) :
       RunningDistance(route.counts, route.segmentDistance, i) <= MaxEmptyDistance
  /\ \E i \in 2..(Len(route.counts) - 1) : ~lowDensity(route.counts[i])

\* the direct path and the path of trial k
DirectPath == generateCameraPath(route.startCamera, route.endCamera, PathSegments)

TrialWaypoints(k) == generateWaypoints(route.startCamera, route.endCamera, k)

TrialPath(k) ==
  LET w == TrialWaypoints(k)
  IN generateCameraPath(w[1], w[2], TrialSteps)
       \o Tail(generateCameraPath(w[2], w[3], TrialSteps))

DirectValidates ==
  validatePathBetween(route.world, route.startCamera, route.endCamera).isValid

TrialValidates(k) ==
  LET w == TrialWaypoints(k)
  IN \A i \in 1..2 : validatePathBetween(route.world, w[i], w[i + 1]).isValid

ValidTrials ==
  { k \in 0..(route.rerouting.maxAttempts - 1) : TrialValidates(k) }

\* C23: adjustPath returns a path from start to end: the direct path when it
\* validates; otherwise, with rerouting enabled, the path of the
\* lowest-numbered trial below maxAttempts that validates; otherwise the
\* direct path
C23_DirectOrFirstValidTrial ==
  route.done =>
    /\ Len(route.result) >= 1
    /\ route.result[1] = route.startCamera
    /\ route.result[Len(route.result)] = route.endCamera
    /\ route.result =
         IF DirectValidates THEN DirectPath
         ELSE IF route.rerouting.enabled /\ ValidTrials # {}
         THEN TrialPath(CHOOSE k \in ValidTrials : \A m \in ValidTrials : k <= m)
         ELSE DirectPath

\* a later trial was returned although an even later one validates too
C23_Witness ==
  /\ route.done
  /\ ~DirectValidates
  /\ route.rerouting.enabled
  /\ \E k \in ValidTrials :
       /\ k >= 1
       /\ route.result = TrialPath(k)
       /\ \E m \in ValidTrials : m > k

Dot(u, v) == u[1] * v[1] + u[2] * v[2] + u[3] * v[3]

RouteDirection == [c \in 1..3 |-> route.endCamera[c] - route.startCamera[c]]

\* what trial k adds to the linear midpoint of start and end
TrialDeviation(k) ==
  [c \in 1..3 |->
     TrialWaypoints(k)[2][c] - (route.startCamera[c] + route.endCamera[c]) \div 2]

\* C24: in trial k the waypoints are (start, midpoint, end), and the midpoint
\* is the linear midpoint plus a deviation that is perpendicular to
\* end - start, has length |end - start| * detourFactor * (k + 1) and changes
\* sign from one trial to the next, for every start and end
C24_DeviationPerpendicularScaledAlternating ==
  route.done =>
    \A k \in 0..(MaxAttempts - 1) :
      /\ Len(TrialWaypoints(k)) = 3
      /\ TrialWaypoints(k)[1] = route.startCamera
      /\ TrialWaypoints(k)[3] = route.endCamera
      /\ Dot(TrialDeviation(k), RouteDirection) = 0
      /\ ISqrt(SumSquares(TrialDeviation(k))) * 10
           = ISqrt(SumSquares(RouteDirection)) * DetourFactorTenths * (k + 1)
      /\ k >= 1 => Dot(TrialDeviation(k), TrialDeviation(k - 1)) < 0

CallsOf(op) ==
  { starField.calls[i] : i \in { j \in 1..Len(starField.calls) :
                                   starField.calls[j].op = op } }

\* C26: getStarPosition fails for an index below 1 or above TOTAL_STARS and
\* returns no position; for an index from 1 to TOTAL_STARS it returns a
\* position with every coordinate in [-UNIVERSE_SIZE/2, UNIVERSE_SIZE/2)
C26_RangeErrorOrPositionInUniverse ==
  \A call \in CallsOf("getStarPosition") :
    IF call.args[1] < 1 \/ call.args[1] > TotalStars
    THEN call.result.threw /\ call.result.position = <<>>
    ELSE /\ ~call.result.threw
         /\ \A c \in 1..3 :
              /\ -(UniverseSize \div 2) <= call.result.position[c]
              /\ call.result.position[c] < UniverseSize - UniverseSize \div 2

\* the star just above the range was refused and the last star was located
C26_Witness ==
  /\ \E call \in CallsOf("getStarPosition") :
       call.args[1] = TotalStars + 1 /\ call.result.threw
  /\ \E call \in CallsOf("getStarPosition") :
       call.args[1] = TotalStars /\ ~call.result.threw

\* C27: every star returned by getStarsInChunk, sampled or filler, lies
\* within the bounds on all three axes, also for a box narrower than twice
\* the cluster radius
C27_StarsWithinBounds ==
  \A call \in CallsOf("getStarsInChunk") :
    \A k \in 1..Len(call.result) :
      \A c \in 1..3 :
        /\ call.args[1].min[c] <= call.result[k].position[c]
        /\ call.result[k].position[c] <= call.args[1].max[c]

\* filler stars were made for a box narrower than twice the cluster radius
C27_Witness ==
  \E call \in CallsOf("getStarsInChunk") :
    /\ \A c \in 1..3 : call.args[1].max[c] - call.args[1].min[c] < 2 * ClusterRadius
    /\ \E k \in 1..Len(call.result) : call.result[k].starIndex < 0

Sampled(stars) == { k \in 1..Len(stars) : stars[k].starIndex > 0 }

Fillers(stars) == { k \in 1..Len(stars) : stars[k].starIndex < 0 }

\* C28: getStarsInChunk returns at least 150 stars; with fewer than 150
\* sampled stars it adds exactly the missing number of filler stars, each
\* with a negative index of its own, so that 150 stars are returned
C28_AtLeastMinimumExactFill ==
  \A call \in CallsOf("getStarsInChunk") :
    /\ Len(call.result) >= MinStarsPerChunk
    /\ Sampled(call.result) \cup Fillers(call.result) = 1..Len(call.result)
    /\ Cardinality(Sampled(call.result)) < MinStarsPerChunk =>
         /\ Cardinality(Fillers(call.result))
              = MinStarsPerChunk - Cardinality(Sampled(call.result))
         /\ \A j, k \in Fillers(call.result) :
              j # k => call.result[j].starIndex # call.result[k].starIndex
         /\ Len(call.result) = MinStarsPerChunk

\* a box got sampled stars and filler stars, another sampled stars only
C28_Witness ==
  /\ \E call \in CallsOf("getStarsInChunk") :
       Sampled(call.result) # {} /\ Fillers(call.result) # {}
  /\ \E call \in CallsOf("getStarsInChunk") :
       Cardinality(Sampled(call.result)) >= MinStarsPerChunk

\* C29: two loads of the same chunk bounds give star records that agree in
\* identity, position, colour, size and intensity, and the colour of a star
\* follows from its position alone
C29_LoadedStarsReproducible ==
  \A a, b \in CallsOf("loadChunkData") :
    /\ a.args = b.args => a.result = b.result
    /\ \A j \in 1..Len(a.result), k \in 1..Len(b.result) :
         a.result[j].position = b.result[k].position
           => a.result[j].color = b.result[k].color

\* C30: the stars that the worker produces for a cell equal, element by
\* element and field by field, the stars that the fallback on the main
\* thread produces for the same cell, zoom and seed
C30_WorkerEqualsFallback ==
  (cell.requested /\ cell.worker.done /\ cell.fallback.done)
    => cell.worker.stars = cell.fallback.stars

\* both produced the stars of a cell at a zoom with a fractional
\* starsPerCell
C30_Witness ==
  /\ cell.requested /\ cell.worker.done /\ cell.fallback.done
  /\ cell.zoom = 41
  /\ Len(cell.worker.stars) = 221

Elements(seq) == { seq[i] : i \in 1..Len(seq) }

Ascending(seq) == \A i \in 1..(Len(seq) - 1) : seq[i] < seq[i + 1]

\* what a toggle of number makes of the selection before, with room for max
ToggleLaw(before, number, max, after) ==
  IF number \in Elements(before)
  THEN Elements(after) = Elements(before) \ { number } /\ Len(after) = Len(before) - 1
  ELSE IF Len(before) < max
  THEN Elements(after) = Elements(before) \cup { number } /\ Len(after) = Len(before) + 1
  ELSE after = before

\* C32: after any calls of toggleMainNumber, toggleLuckyStar and
\* resetSelection, selectedMain holds at most 5 distinct numbers in ascending
\* order and selectedLucky at most 2; a toggle removes a selected number, adds
\* an unselected one when there is room and otherwise changes nothing
C32_SelectionBoundedSortedToggle ==
  /\ Len(picker.selectedMain) <= MaxMain
  /\ Ascending(picker.selectedMain)
  /\ Len(picker.selectedLucky) <= MaxLucky
  /\ (picker.last # << >> /\ picker.last[1] = "toggleMainNumber") =>
       ToggleLaw(picker.last[3], picker.last[2], MaxMain, picker.selectedMain)
  /\ (picker.last # << >> /\ picker.last[1] = "toggleLuckyStar") =>
       ToggleLaw(picker.last[3], picker.last[2], MaxLucky, picker.selectedLucky)

\* a sixth number was toggled on a full main selection
C32_Witness ==
  /\ picker.last # << >>
  /\ picker.last[1] = "toggleMainNumber"
  /\ Len(picker.last[3]) = MaxMain
  /\ picker.last[2] \notin Elements(picker.last[3])
  /\ Len(picker.selectedLucky) = MaxLucky

Issued == 1..manager.requestCounter

SettledOnceInv ==
  /\ \A id \in 1..MaxRequests :
       /\ Len(manager.settled[id]) <= 1
       /\ (id \in manager.pendingRequests) <=> (id \in Issued /\ manager.settled[id] = <<>>)
       /\ \A i \in 1..Len(manager.settled[id]) :
            /\ manager.settled[id][i].how \in { "resolve", "timeout", "cleanup" }
            /\ manager.settled[id][i].how = "resolve" => manager.settled[id][i].by = id
  /\ \A write \in manager.cacheWrites :
       write.by # 0 => manager.settled[write.by] = << [how |-> "resolve", by |-> write.by] >>
  /\ \A id \in manager.ignored :
       /\ manager.settled[id] # <<>>
       /\ manager.settled[id][1].how \in { "timeout", "cleanup" }

\* C31: every request sent to the worker is settled exactly once, resolved
\* only by the response with its own requestId or rejected by its timeout or
\* by cleanup(); a response that arrives after that is ignored (no resolve, no
\* cache write), and no entry stays in pendingRequests forever
C31_RequestSettledExactlyOnce ==
  /\ []SettledOnceInv
  /\ \A id \in 1..MaxRequests :
       (id \in manager.pendingRequests) ~> (Len(manager.settled[id]) = 1)

\* one response came after the timeout of its request and one after cleanup(),
\* and a third request was resolved by its response
C31_Witness ==
  /\ \E id \in manager.ignored : manager.settled[id][1].how = "timeout"
  /\ \E id \in manager.ignored : manager.settled[id][1].how = "cleanup"
  /\ \E id \in Issued : manager.settled[id] # <<>> /\ manager.settled[id][1].how = "resolve"

\* adjustPath returned the path of a trial
Rerouted == route.done /\ route.result # DirectPath

\* the running distance through consecutive low-density points at point i of
\* a path, counted as validatePath counts it
RECURSIVE EmptyDistanceAt(_, _, _)
EmptyDistanceAt(world, path, i) ==
  IF ~lowDensity(visibleStars(world, path[i])) THEN 0
  ELSE IF i = 1 THEN 0
  ELSE EmptyDistanceAt(world, path, i - 1) + calculateDistance(path[i - 1], path[i])

LowPointsOf(world, path) ==
  { i \in 1..Len(path) : lowDensity(visibleStars(world, path[i])) }

\* C33: a rerouted path that adjustPath returns satisfies the validatePath
\* criteria as one whole path: the running distance through consecutive
\* low-density points never exceeds maxEmptyDistance, also across the deviated
\* midpoint, and at most half of its points are low-density
C33_ReroutedPathValidAsWhole ==
  Rerouted =>
    /\ \A i \in 1..Len(route.result) :
         EmptyDistanceAt(route.world, route.result, i) <= MaxEmptyDistance
    /\ Cardinality(LowPointsOf(route.world, route.result)) * 2 <= Len(route.result)

Waiting(i) ==
  i <= Len(chunks) /\ chunks[i].loadState = "unloaded" /\ chunks[i].priority > 0

Served(i) == i <= Len(chunks) /\ chunks[i].loadState \in {"loaded", "error"}

InLoading(i) == i <= Len(chunks) /\ chunks[i].loadState = "loading"

LeftLoading(i) ==
  /\ i <= Len(chunks)
  /\ chunks[i].loadState # "loading"
  /\ chunks[i].id \notin DOMAIN loadingTasks

OctreeView(t, visible) ==
  [visibleNodes |-> visible,
   nodes |-> [q \in DOMAIN t |->
                [mesh |-> t[q].mesh, lodLevel |-> t[q].lodLevel,
                 distanceToCamera |-> t[q].distanceToCamera]]]

\* C35: a validatePath call leaves the octree as it found it: the visible
\* set, every node's render batch, lodLevel and distanceToCamera are the same
\* after the call as before it
C35_ValidationLeavesOctreeUnchanged ==
  scene.last = "validatePath" =>
    OctreeView(tree, scene.visibleNodes)
      = OctreeView(scene.before[1].tree, scene.before[1].visibleNodes)

MeshMatchesStars(node) ==
  node.mesh = [i \in 1..Len(node.stars) |-> node.stars[i].id]

\* C40: after an updateVisibility call every visible node is a leaf with at
\* least one star whose render batch holds exactly the stars in node.stars,
\* and no subdivided node keeps a render batch
C40_VisibleBatchesMatchStars ==
  scene.last = "updateVisibility" =>
    /\ \A q \in scene.visibleNodes :
         /\ tree[q].children = <<>>
         /\ tree[q].stars # <<>>
         /\ MeshMatchesStars(tree[q])
    /\ \A q \in Internal : tree[q].mesh = <<>>

\* the completed loads of the chunk whose stars are in the octree: each load
\* inserts the StarsInChunk stars of the chunk and nothing is taken out
LoadsInserted(chunkId) == octreeStars[chunkId] \div MinStarsPerChunk

\* the stars with id star_-k in the octree.  The chunks of the loader hold
\* fewer sampled stars than minStarsPerChunk, so every load brings the filler
\* stars; filler j of a chunk has the index of fillerClusters, whatever the
\* chunk is
CopiesOfFiller(k) ==
  LET index(j) == -(((j - 1) \div StarsPerCluster) * StarsPerCluster
                      + ((j - 1) % StarsPerCluster) + 1)
      brings(chunkId) == \E j \in 1..MinStarsPerChunk : index(j) = -k
      RECURSIVE Sum(_)
      Sum(S) == IF S = {} THEN 0
                ELSE LET c == CHOOSE x \in S : TRUE
                     IN (IF brings(c) THEN LoadsInserted(c) ELSE 0) + Sum(S \ {c})
  IN Sum(DOMAIN octreeStars)

\* C36: the octree holds at most one star of each star id
C36_OneStarPerStarId ==
  \A k \in 1..MinStarsPerChunk : CopiesOfFiller(k) <= 1

LoadingIndices(cs) == { i \in 1..Len(cs) : cs[i].loadState = "loading" }

\* C37: between ticks and callbacks a chunk is 'loading' exactly when
\* loadingTasks has an entry for its id, and loadingTasks has as many entries
\* as there are chunks in state 'loading'
C37_LoadingIffTask ==
  pc = "idle" =>
    /\ \A i \in 1..Len(chunks) :
         chunks[i].loadState = "loading" <=> chunks[i].id \in DOMAIN loadingTasks
    /\ Cardinality(DOMAIN loadingTasks) = Cardinality(LoadingIndices(chunks))

\* after a clear(), a callback of a load started before it has set a chunk
\* made again to 'loaded' and taken the entry of the chunk's new load away,
\* while the new load's callback is still to come and another load runs
C37_Witness ==
  /\ pc = "idle"
  /\ clears.count = 1
  /\ \E i \in 1..Len(chunks) :
       /\ chunks[i].loadState = "loaded"
       /\ \E k \in 1..Len(pendingLoads) : pendingLoads[k] = chunks[i].id
       /\ chunks[i].id \notin DOMAIN loadingTasks
  /\ \E i \in 1..Len(chunks) :
       /\ chunks[i].loadState = "loading"
       /\ chunks[i].id \in DOMAIN loadingTasks

SumMemoryUsage(cs, S) ==
  LET RECURSIVE Sum(_)
      Sum(T) == IF T = {} THEN 0
                ELSE LET i == CHOOSE x \in T : TRUE
                     IN cs[i].memoryUsage + Sum(T \ {i})
  IN Sum(S)

\* C38: totalMemoryUsage is the sum of memoryUsage over the loaded chunks
\* (100 bytes per star of starCount) and never negative; chunks that are not
\* loaded have memoryUsage 0 and starCount 0
C38_MemoryIsSumOfLoaded ==
  /\ performanceMetrics.totalMemoryUsage
       = SumMemoryUsage(chunks, LoadedIndices(chunks))
  /\ performanceMetrics.totalMemoryUsage >= 0
  /\ \A i \in 1..Len(chunks) :
       IF chunks[i].loadState = "loaded"
       THEN chunks[i].memoryUsage = BytesPerStar * chunks[i].starCount
       ELSE chunks[i].memoryUsage = 0 /\ chunks[i].starCount = 0

\* a callback of a load started before the last clear() runs in this step
StaleCallbackRuns == clears.stale > 0 /\ clears'.stale = clears.stale - 1

\* the ids of the loads started after the last clear()
StartedAfterClear ==
  { pendingLoads[k] : k \in (clears.stale + 1)..Len(pendingLoads) }

\* C39: a callback of a load started before clear() inserts no star, changes
\* no chunk's loadState, removes no loadingTasks entry of a load started after
\* the clear and changes no statistic
C39_StaleCallbackHasNoEffect ==
  [][StaleCallbackRuns =>
       /\ octreeStars' = octreeStars
       /\ Len(chunks') = Len(chunks)
       /\ \A i \in 1..Len(chunks) : chunks'[i].loadState = chunks[i].loadState
       /\ \A id \in StartedAfterClear :
            id \in DOMAIN loadingTasks => id \in DOMAIN loadingTasks'
       /\ performanceMetrics' = performanceMetrics]_vars

====
